---- MODULE Spec2Model ----
(***************************************************************************)
(* A model of the collaborative text buffer of zed/src/editor/buffer/mod.rs *)
(* (Buffer, History, UndoMap, Fragment, FragmentId and the operations on    *)
(* them).  A buffer is a record holding the fields of `struct Buffer`; the   *)
(* methods of the source are operators from buffers to buffers, and the      *)
(* actions apply them to the replicas of the variable `buffers`.             *)
(*                                                                           *)
(* Conventions: Option<T> is a sequence of length 0 (None) or 1 (Some);      *)
(* Option<Text> is the text itself, None being the empty text (Buffer::edit  *)
(* turns an empty new_text into None); a SumTree is the sequence of its      *)
(* items and a cursor is an index into it; a HashMap is a function whose     *)
(* domain is the set of its keys.                                            *)
(***************************************************************************)
EXTENDS Integers, Sequences, FiniteSets, TLC

VARIABLES
    buffers,            \* replica id -> Buffer
    network,            \* replica id -> the operations broadcast to it and not yet
                        \* received, each named <<author, index into sent[author]>>
    sent,               \* replica id -> the operations its local mutations returned,
                        \* in order, each with what its author had applied by then
    mutation_count,     \* local mutations left (test_random_concurrent_edits)
    reference_string,   \* replica id -> the reference text of test_random_edits
    applied_log,        \* replica id -> Lamport timestamps of the operations that took
                        \* effect on it (its own and the remote ones), in order
    apply_result,       \* replica id -> "Ok", or how its last call failed: apply_ops
                        \* with "Err" or "Panic", a local call with "LocalFailure"
    now,                \* the wall clock (Instant::now()), in milliseconds
    last_action,        \* the last call of the transaction, undo or selection
                        \* interface, and what an observer noted about it
    snapshots           \* what an observer of the author noted at the boundaries of
                        \* its transactions (the text and the selection snapshot),
                        \* stacked as the undo and redo stacks: [open, undo, redo];
                        \* undo() and redo() note the text they were called on

vars == <<buffers, network, sent, mutation_count, reference_string, applied_log,
          apply_result, now, last_action, snapshots>>

----------------------------------------------------------------------------
(* Bounds of the model *)

\* number of local mutations explored (mutation_count of the random tests)
MaxMutations == 3
\* largest number of operations handed to one apply_ops call
MaxBatch == 2
\* largest number of undo_or_redo calls of one randomly_undo_redo
MaxUndoRedo == 1
\* number of calls of the author explored in SpecHistory
MaxCalls == 5
\* the latest time the wall clock reaches, in milliseconds
MaxClock == 301
\* deepest nesting of start_transaction explored
MaxDepth == 2

ReplicaIds == {0, 1}

\* const UNDO_GROUP_INTERVAL: Duration = Duration::from_millis(300)
UNDO_GROUP_INTERVAL == 300
\* u16::max_value(), the largest digit of a FragmentId
U16Max == 65535

Max(a, b) == IF a >= b THEN a ELSE b
Min(a, b) == IF a <= b THEN a ELSE b

None == <<>>
Some(x) == <<x>>
IsSome(o) == Len(o) > 0
Unwrap(o) == o[1]

----------------------------------------------------------------------------
(* crate::time: Local, Lamport and Global clocks *)

LocalDefault == [replica_id |-> 0, value |-> 0]
LocalNew(r) == [replica_id |-> r, value |-> 1]
\* Local::tick returns the current timestamp and advances the clock
LocalTick(clock) == [clock EXCEPT !.value = @ + 1]
LocalObserve(clock, ts) ==
    IF ts.replica_id = clock.replica_id
    THEN [clock EXCEPT !.value = Max(@, ts.value + 1)]
    ELSE clock

LamportDefault == [value |-> 0, replica_id |-> 0]
LamportNew(r) == [value |-> 1, replica_id |-> r]
LamportTick(clock) == [clock EXCEPT !.value = @ + 1]
LamportObserve(clock, ts) == [clock EXCEPT !.value = Max(@, ts.value) + 1]
\* Lamport timestamps are ordered by counter first, then by replica id
LamportLess(a, b) ==
    \/ a.value < b.value
    \/ a.value = b.value /\ a.replica_id < b.replica_id

GlobalNew == [r \in ReplicaIds |-> 0]
GlobalObserve(g, ts) == [g EXCEPT ![ts.replica_id] = Max(@, ts.value)]
GlobalObserveAll(g, other) == [r \in ReplicaIds |-> Max(g[r], other[r])]
GlobalObserved(g, ts) == g[ts.replica_id] >= ts.value
\* the partial order of version vectors: pointwise <=
GlobalChangedSince(g, other) == \E r \in ReplicaIds : g[r] > other[r]
GlobalLeq(a, b) == \A r \in ReplicaIds : a[r] <= b[r]
GlobalGt(a, b) == a # b /\ \A r \in ReplicaIds : a[r] >= b[r]

----------------------------------------------------------------------------
(* FragmentId: a sequence of u16 digits, ordered as Rust orders slices *)

FRAGMENT_ID_MIN_VALUE == <<0>>
FRAGMENT_ID_MAX_VALUE == <<U16Max>>

FragmentIdLess(a, b) ==
    \/ \E k \in 1..Min(Len(a), Len(b)) :
          /\ a[k] < b[k]
          /\ \A j \in 1..(k - 1) : a[j] = b[j]
    \/ /\ Len(a) < Len(b)
       /\ \A j \in 1..Len(a) : a[j] = b[j]

RECURSIVE between_digits(_, _, _, _)
between_digits(left, right, max_value, k) ==
    LET l == IF k <= Len(left) THEN left[k] ELSE 0
        r == IF k <= Len(right) THEN right[k] ELSE max_value
        interval == (r - l) % (U16Max + 1)
    IN  IF interval > 1
        THEN <<(l + Max(1, Min(8, interval \div 2))) % (U16Max + 1)>>
        ELSE <<l>> \o between_digits(left, right, max_value, k + 1)

between_with_max(left, right, max_value) == between_digits(left, right, max_value, 1)

\* a between that hands back the id on the left
between_left(left, right) == left

between(left, right) == between_with_max(left, right, U16Max)

\* whether `r - l` or `l + ..` of between_with_max leaves the u16 range at some digit,
\* from digit k on: a panic of a build with overflow checks, a wrapped digit otherwise
RECURSIVE between_overflows(_, _, _, _)
between_overflows(left, right, max_value, k) ==
    LET l == IF k <= Len(left) THEN left[k] ELSE 0
        r == IF k <= Len(right) THEN right[k] ELSE max_value
    IN  IF r < l THEN TRUE
        ELSE IF r - l > 1 THEN l + Max(1, Min(8, (r - l) \div 2)) > U16Max
        ELSE between_overflows(left, right, max_value, k + 1)

----------------------------------------------------------------------------
(* Fragment *)

start_offset(f) == f.start
end_offset(f) == f.end
set_start_offset(f, offset) == [f EXCEPT !.start = offset]
set_end_offset(f, offset) == [f EXCEPT !.end = offset]
FragmentLen(f) == f.end - f.start
visible_len(f) == IF f.visible THEN FragmentLen(f) ELSE 0
FragmentText(f) == SubSeq(f.insertion.text, f.start + 1, f.end)

\* Fragment::new
FragmentNew(id, insertion) ==
    [id |-> id, insertion |-> insertion, start |-> 0, end |-> Len(insertion.text),
     deletions |-> {}, max_undos |-> GlobalNew, visible |-> TRUE]

\* <Fragment as sum_tree::Item>::summary, the max_version field
RECURSIVE ObserveSet(_, _)
ObserveSet(g, ids) ==
    IF ids = {} THEN g
    ELSE LET d == CHOOSE d \in ids : TRUE
         IN ObserveSet(GlobalObserve(g, d), ids \ {d})

max_version(f) ==
    GlobalObserveAll(ObserveSet(GlobalObserve(GlobalNew, f.insertion.id), f.deletions),
                     f.max_undos)

----------------------------------------------------------------------------
(* HashMap helpers *)

EmptyMap == [k \in {} |-> TRUE]
Put(m, key, val) == [k \in (DOMAIN m) \cup {key} |-> IF k = key THEN val ELSE m[k]]
Remove(m, key) == [k \in (DOMAIN m) \ {key} |-> m[k]]

----------------------------------------------------------------------------
(* UndoMap: edit id -> Vec<UndoOperation> *)

RECURSIVE MaxCount(_, _)
MaxCount(undos, k) ==
    IF k > Len(undos) THEN 0 ELSE Max(undos[k].count, MaxCount(undos, k + 1))

UndoMapInsert(undo_map, undo) ==
    Put(undo_map, undo.edit_id,
        Append(IF undo.edit_id \in DOMAIN undo_map THEN undo_map[undo.edit_id] ELSE <<>>,
               undo))

\* an undo_count that takes the count of the record pushed last
undo_count_last(undo_map, edit_id) ==
    IF edit_id \in DOMAIN undo_map THEN undo_map[edit_id][Len(undo_map[edit_id])].count ELSE 0

undo_count(undo_map, edit_id) ==
    IF edit_id \in DOMAIN undo_map THEN MaxCount(undo_map[edit_id], 1) ELSE 0

\* an edit counts as undone as soon as it has been undone once
is_undone_once(undo_map, edit_id) == undo_count(undo_map, edit_id) > 0

is_undone(undo_map, edit_id) == undo_count(undo_map, edit_id) % 2 = 1

was_undone(undo_map, edit_id, version) ==
    LET all == IF edit_id \in DOMAIN undo_map THEN undo_map[edit_id] ELSE <<>>
        seen == SelectSeq(all, LAMBDA u : GlobalObserved(version, u.id))
    IN  MaxCount(seen, 1) % 2 = 1

\* Fragment::is_visible
is_visible(f, undos) ==
    /\ ~is_undone(undos, f.insertion.id)
    /\ \A d \in f.deletions : is_undone(undos, d)

\* Fragment::was_visible
was_visible(f, version, undos) ==
    /\ GlobalObserved(version, f.insertion.id)
    /\ ~was_undone(undos, f.insertion.id, version)
    /\ \A d \in f.deletions : ~GlobalObserved(version, d) \/ was_undone(undos, d, version)

----------------------------------------------------------------------------
(* crate::sum_tree: cursors over the fragment tree and over a split tree.   *)
(* A seek moves forward past every item whose end is before the target, and *)
(* with SeekBias::Right also past the items that end exactly at it.          *)

RECURSIVE CursorStart(_, _)
\* cursor.start() in the usize dimension: the visible length before item i
CursorStart(frags, i) ==
    IF i <= 1 THEN 0 ELSE CursorStart(frags, i - 1) + visible_len(frags[i - 1])

RECURSIVE SeekOffsetFrom(_, _, _, _, _)
SeekOffsetFrom(frags, i, acc, target, bias) ==
    IF i > Len(frags) THEN i
    ELSE LET e == acc + visible_len(frags[i])
         IN  IF target > e \/ (target = e /\ bias = "Right")
             THEN SeekOffsetFrom(frags, i + 1, e, target, bias)
             ELSE i

\* fragments.cursor::<usize, usize>() sought (forward from item `from`) to an offset
SeekOffset(frags, from, target, bias) ==
    SeekOffsetFrom(frags, from, CursorStart(frags, from), target, bias)

RECURSIVE SeekFragmentId(_, _, _)
\* fragments.cursor::<FragmentIdRef, ()>() sought with SeekBias::Left: the first
\* item at or after `from` whose id is not below the target
SeekFragmentId(frags, from, target) ==
    IF from > Len(frags) THEN from
    ELSE IF FragmentIdLess(frags[from].id, target)
         THEN SeekFragmentId(frags, from + 1, target)
         ELSE from

RECURSIVE SplitSeekFrom(_, _, _, _, _)
SplitSeekFrom(splits, i, acc, target, bias) ==
    IF i > Len(splits) THEN i
    ELSE LET e == acc + splits[i].extent
         IN  IF target > e \/ (target = e /\ bias = "Right")
             THEN SplitSeekFrom(splits, i + 1, e, target, bias)
             ELSE i

\* split_tree.cursor::<usize, ()>() sought from the start to an offset
SplitSeek(splits, target, bias) == SplitSeekFrom(splits, 1, 0, target, bias)

Slice(seq, from, to) == SubSeq(seq, from, to - 1)
Suffix(seq, from) == SubSeq(seq, from, Len(seq))
Last(seq) == seq[Len(seq)]

----------------------------------------------------------------------------
(* Buffer: text and the fragment index *)

RECURSIVE TextOf(_, _)
TextOf(frags, i) ==
    IF i > Len(frags) THEN <<>>
    ELSE (IF frags[i].visible THEN FragmentText(frags[i]) ELSE <<>>) \o TextOf(frags, i + 1)

\* Buffer::text
text(buf) == TextOf(buf.fragments, 1)

\* Buffer::len
len(buf) == CursorStart(buf.fragments, Len(buf.fragments) + 1)

\* Buffer::resolve_fragment_id: [ok, id]
resolve_fragment_id(insertion_splits, edit_id, offset) ==
    IF edit_id \notin DOMAIN insertion_splits
    THEN [ok |-> FALSE, id |-> <<>>]
    ELSE LET split_tree == insertion_splits[edit_id]
             k == SplitSeek(split_tree, offset, "Left")
         IN  IF k > Len(split_tree)
             THEN [ok |-> FALSE, id |-> <<>>]
             ELSE [ok |-> TRUE, id |-> split_tree[k].fragment_id]

\* a split_fragment that records no piece in the split tree
split_tree_push_nothing(tree, piece, extent) == tree

\* new_split_tree.push_back(InsertionSplit {..}) for a piece that exists
split_tree_push(tree, piece, extent) ==
    IF IsSome(piece)
    THEN Append(tree, [extent |-> extent, fragment_id |-> Unwrap(piece).id])
    ELSE tree

\* Buffer::split_fragment: the three pieces of `fragment` around the range, and the
\* split tree of its insertion rebuilt around them.  The local definitions are read
\* from the last to the first: cut_after is the `if range.end < fragment.end_offset()`
\* block, cut_within the `if range.start != range.end` block, keep_before the
\* `if range.start > fragment.start_offset()` block, rebuilt the new split tree.
split_fragment(insertion_splits, prev_fragment, fragment, range_start, range_end) ==
    IF range_end = start_offset(fragment)
    THEN [before |-> None, within |-> None, after |-> Some(fragment),
          insertion_splits |-> insertion_splits]
    ELSE IF range_start = end_offset(fragment)
    THEN [before |-> Some(fragment), within |-> None, after |-> None,
          insertion_splits |-> insertion_splits]
    ELSE IF range_start = start_offset(fragment) /\ range_end = end_offset(fragment)
    THEN [before |-> None, within |-> Some(fragment), after |-> None,
          insertion_splits |-> insertion_splits]
    ELSE
    LET old_split_tree == insertion_splits[fragment.insertion.id]
        rebuilt(before_range, within_range, after_range, k) ==
            [before |-> before_range, within |-> within_range, after |-> after_range,
             insertion_splits |->
                Put(insertion_splits, fragment.insertion.id,
                    split_tree_push(
                      split_tree_push(
                        split_tree_push(Slice(old_split_tree, 1, k), before_range,
                                        range_start - start_offset(fragment)),
                        within_range, range_end - range_start),
                      after_range, end_offset(fragment) - range_end)
                    \o Suffix(old_split_tree, k + 1))]
        keep_before(prefix, within_range, after_range) ==
            rebuilt(IF range_start > start_offset(fragment) THEN Some(prefix) ELSE None,
                    within_range, after_range,
                    SplitSeek(old_split_tree, start_offset(fragment), "Right"))
        cut_within(prefix, after_range) ==
            IF range_start # range_end
            THEN keep_before([set_end_offset(prefix, range_start)
                                 EXCEPT !.id = between(prev_fragment.id, prefix.id)],
                             Some(set_start_offset(prefix, range_start)), after_range)
            ELSE keep_before(prefix, None, after_range)
        cut_after(prefix) ==
            IF range_end < end_offset(fragment)
            THEN cut_within([set_end_offset(prefix, range_end)
                                EXCEPT !.id = between(prev_fragment.id, prefix.id)],
                            Some(set_start_offset(prefix, range_end)))
            ELSE cut_within(prefix, None)
    IN  cut_after(fragment)

\* Buffer::build_fragment_to_insert: the fragment of a new insertion placed between
\* prev_fragment and next_fragment (an Option), and its one-split tree
build_fragment_to_insert(insertion_splits, prev_fragment, next_fragment, new_text, local_timestamp, lamport_timestamp) ==
    LET new_fragment_id ==
            between(prev_fragment.id,
                    IF IsSome(next_fragment) THEN Unwrap(next_fragment).id
                    ELSE FRAGMENT_ID_MAX_VALUE)
        split_tree == <<[extent |-> Len(new_text), fragment_id |-> new_fragment_id]>>
    IN  [fragment |->
            FragmentNew(new_fragment_id,
                        [id |-> local_timestamp,
                         parent_id |-> prev_fragment.insertion.id,
                         offset_in_parent |-> end_offset(prev_fragment),
                         text |-> new_text,
                         lamport_timestamp |-> lamport_timestamp]),
         insertion_splits |-> Put(insertion_splits, local_timestamp, split_tree)]

----------------------------------------------------------------------------
(* Operations *)

EditOperation(id, start_id, start_off, end_id, end_off, version_in_range, new_text) ==
    [id |-> id, start_id |-> start_id, start_offset |-> start_off,
     end_id |-> end_id, end_offset |-> end_off,
     version_in_range |-> version_in_range, new_text |-> new_text]

OperationEdit(edit, lamport_timestamp) ==
    [type |-> "Edit", edit |-> edit, lamport_timestamp |-> lamport_timestamp]

OperationUndo(undo, lamport_timestamp) ==
    [type |-> "Undo", undo |-> undo, lamport_timestamp |-> lamport_timestamp]

OperationUpdateSelections(set_id, selections, lamport_timestamp) ==
    [type |-> "UpdateSelections", set_id |-> set_id, selections |-> selections,
     lamport_timestamp |-> lamport_timestamp]

\* Operation::replica_id
op_replica_id(op) == op.lamport_timestamp.replica_id

----------------------------------------------------------------------------
(* Buffer::splice_fragments.  The loop state `s` holds the locals of the     *)
(* function: nf = new_fragments, ci = the cursor over the old fragments,      *)
(* ranges = cur_range followed by what old_ranges still yields, frag/fs/fe =  *)
(* fragment, fragment_start, fragment_end, nst = new_split_tree, lt/lam = the *)
(* timestamps of the current range, lc/lmc = the clocks of the buffer.        *)

\* a deletion that records the edit but leaves the fragment visible
tombstone_visible(f, local_timestamp) ==
    [f EXCEPT !.deletions = @ \cup {local_timestamp}]

tombstone(f, local_timestamp) ==
    IF f.visible
    THEN [f EXCEPT !.deletions = @ \cup {local_timestamp}, !.visible = FALSE]
    ELSE f

\* a push that keeps the timestamps of the range before for the next range
splice_push_op_reusing(s, new_text) ==
    IF ~(IsSome(s.start_id) /\ IsSome(s.start_offset) /\ IsSome(s.end_id) /\ IsSome(s.end_offset))
    THEN [s EXCEPT !.panic = TRUE, !.ranges = <<>>]
    ELSE [s EXCEPT
            !.ops = Append(@, OperationEdit(
                        EditOperation(s.lt, Unwrap(s.start_id), Unwrap(s.start_offset),
                                      Unwrap(s.end_id), Unwrap(s.end_offset), s.vir, new_text),
                        s.lam)),
            !.start_id = None, !.start_offset = None,
            !.end_id = None, !.end_offset = None,
            !.vir = GlobalNew,
            !.ranges = Tail(@)]

\* ops.push(Operation::Edit {..}) followed by the move to the next range
splice_push_op(s, new_text) ==
    IF ~(IsSome(s.start_id) /\ IsSome(s.start_offset) /\ IsSome(s.end_id) /\ IsSome(s.end_offset))
    THEN [s EXCEPT !.panic = TRUE, !.ranges = <<>>]
    ELSE LET more == Len(s.ranges) > 1
         IN  [s EXCEPT
                !.ops = Append(@, OperationEdit(
                            EditOperation(s.lt, Unwrap(s.start_id), Unwrap(s.start_offset),
                                          Unwrap(s.end_id), Unwrap(s.end_offset), s.vir, new_text),
                            s.lam)),
                !.start_id = None, !.start_offset = None,
                !.end_id = None, !.end_offset = None,
                !.vir = GlobalNew,
                !.ranges = Tail(@),
                !.lt = IF more THEN s.lc ELSE @,
                !.lc = IF more THEN LocalTick(@) ELSE @,
                !.lam = IF more THEN s.lmc ELSE @,
                !.lmc = IF more THEN LamportTick(@) ELSE @]

\* if range.start > fragment_start: the part of the fragment before the range is
\* split off and pushed
splice_prefix(s) ==
    LET range == Head(s.ranges)
        pushed(prefix) ==
            [s EXCEPT !.frag = set_start_offset(@, end_offset(prefix)),
                      !.nf = Append(@, prefix),
                      !.nst = Append(@, [extent |-> end_offset(prefix) - start_offset(prefix),
                                         fragment_id |-> prefix.id]),
                      !.fs = range.start]
    IN  IF range.start > s.fs
        THEN pushed([set_end_offset(s.frag, start_offset(s.frag) + (range.start - s.fs))
                        EXCEPT !.id = between(Last(s.nf).id, s.frag.id)])
        ELSE s

\* if range.end == fragment_start {..} else if range.end == fragment_end {..}
splice_end(s) ==
    LET range == Head(s.ranges)
    IN  IF range.end = s.fs
        THEN [s EXCEPT !.end_id = Some(Last(s.nf).insertion.id),
                       !.end_offset = Some(end_offset(Last(s.nf)))]
        ELSE IF range.end = s.fe
        THEN [s EXCEPT !.end_id = Some(s.frag.insertion.id),
                       !.end_offset = Some(end_offset(s.frag))]
        ELSE s

\* if range.start == fragment_start: the start of the edit, and the new fragment
splice_start(new_text, s) ==
    LET range == Head(s.ranges)
        pushed(a, built) ==
            [a EXCEPT !.nf = Append(@, built.fragment), !.splits = built.insertion_splits]
        started(a) ==
            IF IsSome(new_text)
            THEN pushed(a, build_fragment_to_insert(a.splits, Last(a.nf), Some(a.frag),
                                                    new_text, a.lt, a.lam))
            ELSE a
    IN  IF range.start = s.fs
        THEN started([s EXCEPT !.start_id = Some(Last(s.nf).insertion.id),
                               !.start_offset = Some(end_offset(Last(s.nf)))])
        ELSE s

\* if range.end < fragment_end {..} else {..}: the deleted part of the fragment
splice_delete(fragment_summary, s) ==
    LET range == Head(s.ranges)
        pushed(prefix, rest) ==
            [s EXCEPT !.vir = GlobalObserveAll(@, fragment_summary),
                      !.frag = rest,
                      !.nf = Append(@, prefix),
                      !.nst = Append(@, [extent |-> end_offset(prefix) - start_offset(prefix),
                                         fragment_id |-> prefix.id]),
                      !.fs = range.end,
                      !.end_id = Some(rest.insertion.id),
                      !.end_offset = Some(start_offset(rest))]
        cut(prefix) == pushed(prefix, set_start_offset(s.frag, end_offset(prefix)))
    IN  IF range.end < s.fe
        THEN IF range.end > s.fs
             THEN cut(tombstone(
                        [set_end_offset(s.frag, start_offset(s.frag) + (range.end - s.fs))
                            EXCEPT !.id = between(Last(s.nf).id, s.frag.id)],
                        s.lt))
             ELSE s
        ELSE [s EXCEPT !.vir = GlobalObserveAll(@, fragment_summary),
                       !.frag = tombstone(@, s.lt)]

RECURSIVE splice_inner(_, _, _)
\* "If the splice ends inside this fragment, we can advance to the next splice and
\* check if it also intersects the current fragment.  Otherwise we break out"
splice_inner_end(fragment_summary, new_text, s) ==
    IF Head(s.ranges).end <= s.fe
    THEN splice_inner(fragment_summary, new_text, splice_push_op(s, new_text))
    ELSE s

\* while cur_range.as_ref().map_or(false, |r| r.start < fragment_end)
splice_inner(fragment_summary, new_text, s) ==
    IF s.ranges = <<>> \/ ~(Head(s.ranges).start < s.fe) THEN s
    ELSE splice_inner_end(fragment_summary, new_text,
            splice_delete(fragment_summary,
                splice_start(new_text, splice_end(splice_prefix(s)))))

RECURSIVE splice_scan(_, _, _, _)
\* "Scan forward until we find a fragment that is not fully contained by the current splice"
splice_scan(old, new_text, s, range) ==
    IF s.ci > Len(old) THEN s
    ELSE
    LET fragment == old[s.ci]
        fs == CursorStart(old, s.ci)
        fe == fs + visible_len(fragment)
        s0 == [s EXCEPT !.fs = fs, !.fe = fe]
    IN  IF range.start < fs /\ range.end >= fe
        THEN LET s1 == [s0 EXCEPT !.vir = GlobalObserveAll(@, max_version(fragment)),
                                  !.nf = Append(@, tombstone(fragment, s0.lt)),
                                  !.ci = @ + 1]
             IN  IF range.end = fe
                 THEN splice_push_op([s1 EXCEPT !.end_id = Some(fragment.insertion.id),
                                                !.end_offset = Some(end_offset(fragment))],
                                     new_text)
                 ELSE splice_scan(old, new_text, s1, range)
        ELSE s0

\* the fragment under the cursor becomes the current one, and its split tree is
\* taken out and copied up to the fragment's start
splice_enter(old, s) ==
    LET fragment == old[s.ci]
        fragment_start == CursorStart(old, s.ci)
        old_split_tree == s.splits[fragment.insertion.id]
        entered(k) ==
            [s EXCEPT !.frag = fragment, !.fs = fragment_start,
                      !.fe = fragment_start + visible_len(fragment),
                      !.ost = old_split_tree, !.sk = k,
                      !.nst = Slice(old_split_tree, 1, k)]
    IN  entered(SplitSeek(old_split_tree, start_offset(fragment), "Right"))

\* what is left of the fragment is pushed, its split tree is completed and put
\* back, and the cursor moves on
splice_leave(s) ==
    [s EXCEPT !.splits = Put(@, s.frag.insertion.id,
                             Append(s.nst, [extent |-> end_offset(s.frag) - start_offset(s.frag),
                                            fragment_id |-> s.frag.id])
                             \o Suffix(s.ost, s.sk + 1)),
              !.nf = Append(@, s.frag),
              !.ci = @ + 1]

\* if let Some(range) = cur_range.clone() { while let Some(fragment) = cursor.item() {..} }
splice_contained(old, new_text, s) ==
    IF s.ranges # <<>> THEN splice_scan(old, new_text, s, Head(s.ranges)) ELSE s

\* "we should seek to the next splice's start range and push all the fragments in
\* between into the new tree"
splice_seek(old, s) ==
    LET sought(j) == [s EXCEPT !.nf = @ \o Slice(old, s.ci, j), !.ci = j]
    IN  IF s.ranges # <<>> /\ Head(s.ranges).start > s.fe
        THEN sought(SeekOffset(old, s.ci, Head(s.ranges).start, "Right"))
        ELSE s

RECURSIVE splice_outer(_, _, _)
\* while cur_range.is_some() && cursor.item().is_some()
splice_outer(old, new_text, s) ==
    IF s.ranges = <<>> \/ s.ci > Len(old) \/ s.panic THEN s
    ELSE splice_outer(old, new_text,
            splice_seek(old,
                splice_contained(old, new_text,
                    splice_leave(
                        splice_inner(max_version(old[s.ci]), new_text,
                                     splice_enter(old, s))))))

\* the locals of splice_fragments before its loop
splice_init(buf, old_ranges) ==
    LET old == buf.fragments
        sought(c0) ==
            [nf |-> Slice(old, 1, c0), splits |-> buf.insertion_splits, ci |-> c0,
             ranges |-> old_ranges,
             start_id |-> None, start_offset |-> None, end_id |-> None, end_offset |-> None,
             vir |-> GlobalNew,
             lt |-> buf.local_clock, lc |-> LocalTick(buf.local_clock),
             lam |-> buf.lamport_clock, lmc |-> LamportTick(buf.lamport_clock),
             ops |-> <<>>, panic |-> FALSE,
             frag |-> old[1], fs |-> 0, fe |-> 0, nst |-> <<>>, ost |-> <<>>, sk |-> 0]
    IN  sought(SeekOffset(old, 1, old_ranges[1].start, "Right"))

\* "Handle range that is at the end of the buffer if it exists", else the rest of the
\* old fragments is pushed; then self.fragments = new_fragments
splice_finish(buf, new_text, s) ==
    LET last_fragment == Last(s.nf)
        at_end == s.ranges # <<>>
        end_op == OperationEdit(
                      EditOperation(s.lt, last_fragment.insertion.id, end_offset(last_fragment),
                                    last_fragment.insertion.id, end_offset(last_fragment),
                                    GlobalNew, new_text),
                      s.lam)
        finished(built) ==
            [buf |-> [buf EXCEPT
                        !.fragments =
                            IF at_end
                            THEN IF IsSome(new_text) THEN Append(s.nf, built.fragment) ELSE s.nf
                            ELSE s.nf \o Suffix(buf.fragments, s.ci),
                        !.insertion_splits =
                            IF at_end /\ IsSome(new_text) THEN built.insertion_splits
                            ELSE s.splits,
                        !.local_clock = s.lc,
                        !.lamport_clock = s.lmc],
             ops |-> IF at_end THEN Append(s.ops, end_op) ELSE s.ops,
             panic |-> s.panic]
    IN  finished(build_fragment_to_insert(s.splits, last_fragment, None, new_text, s.lt, s.lam))

\* Buffer::splice_fragments: [buf, ops, panic]
splice_fragments(buf, old_ranges, new_text) ==
    IF old_ranges = <<>> THEN [buf |-> buf, ops |-> <<>>, panic |-> FALSE]
    ELSE splice_finish(buf, new_text,
                       splice_outer(buf.fragments, new_text, splice_init(buf, old_ranges)))

----------------------------------------------------------------------------
(* History *)

\* History::new
HistoryNew(base_text) ==
    [base_text |-> base_text, ops |-> EmptyMap, undo_stack |-> <<>>, redo_stack |-> <<>>,
     transaction_depth |-> 0, group_interval |-> UNDO_GROUP_INTERVAL]

\* History::push
history_push(history, edit) == [history EXCEPT !.ops = Put(@, edit.id, edit)]

\* a start_transaction that pushes an entry at every depth
history_start_transaction_always(history, start, buffer_was_dirty, selections, at) ==
    [history EXCEPT !.transaction_depth = @ + 1,
                    !.undo_stack =
                        Append(@, [start |-> start, buffer_was_dirty |-> buffer_was_dirty,
                                   edits |-> <<>>, selections_before |-> selections,
                                   selections_after |-> None,
                                   first_edit_at |-> at, last_edit_at |-> at])]

\* History::start_transaction
history_start_transaction(history, start, buffer_was_dirty, selections, at) ==
    LET h == [history EXCEPT !.transaction_depth = @ + 1]
    IN  IF h.transaction_depth = 1
        THEN [h EXCEPT !.undo_stack =
                  Append(@, [start |-> start, buffer_was_dirty |-> buffer_was_dirty,
                             edits |-> <<>>, selections_before |-> selections,
                             selections_after |-> None,
                             first_edit_at |-> at, last_edit_at |-> at])]
        ELSE h

\* History::end_transaction: [history, transaction (an Option), panic];
\* assert_ne!(self.transaction_depth, 0) aborts when no transaction is open
history_end_transaction(history, selections, at) ==
    IF history.transaction_depth = 0
    THEN [history |-> history, transaction |-> None, panic |-> TRUE]
    ELSE LET h == [history EXCEPT !.transaction_depth = @ - 1]
             n == Len(h.undo_stack)
         IN  IF h.transaction_depth = 0
             THEN LET t == [h.undo_stack[n] EXCEPT !.selections_after = selections,
                                                   !.last_edit_at = at]
                  IN  [history |-> [h EXCEPT !.undo_stack[n] = t],
                       transaction |-> Some(t), panic |-> FALSE]
             ELSE [history |-> h, transaction |-> None, panic |-> FALSE]

\* grouping only strictly within the interval
history_group_strict(history) ==
    IF Len(history.undo_stack) >= 2
       /\ Last(history.undo_stack).first_edit_at
            - history.undo_stack[Len(history.undo_stack) - 1].last_edit_at
          < history.group_interval
    THEN [history EXCEPT !.undo_stack =
             Append(SubSeq(@, 1, Len(@) - 2),
                    [history.undo_stack[Len(history.undo_stack) - 1] EXCEPT
                       !.edits = @ \o Last(history.undo_stack).edits,
                       !.last_edit_at = Last(history.undo_stack).last_edit_at,
                       !.selections_after = Last(history.undo_stack).selections_after])]
    ELSE history

\* History::group: `for prev_transaction in transactions.next_back()` runs over an
\* Option, so at most the last two entries of the undo stack are merged
history_group(history) ==
    LET n == Len(history.undo_stack)
    IN  IF n < 2 THEN history
        ELSE LET transaction == history.undo_stack[n]
                 prev_transaction == history.undo_stack[n - 1]
             IN  IF transaction.first_edit_at - prev_transaction.last_edit_at
                        <= history.group_interval
                 THEN [history EXCEPT !.undo_stack =
                          Append(SubSeq(@, 1, n - 2),
                                 [prev_transaction EXCEPT
                                    !.edits = @ \o transaction.edits,
                                    !.last_edit_at = transaction.last_edit_at,
                                    !.selections_after = transaction.selections_after])]
                 ELSE history

\* History::push_undo (called by Buffer::edit inside its own transaction)
history_push_undo(history, edit_id) ==
    [history EXCEPT !.undo_stack[Len(history.undo_stack)].edits = Append(@, edit_id)]

\* a pop_undo that leaves the transaction on the undo stack as well
history_pop_undo_kept(history) ==
    IF history.transaction_depth # 0
    THEN [history |-> history, transaction |-> None, panic |-> TRUE]
    ELSE IF history.undo_stack = <<>>
    THEN [history |-> history, transaction |-> None, panic |-> FALSE]
    ELSE [history |-> [history EXCEPT !.redo_stack = Append(@, Last(history.undo_stack))],
          transaction |-> Some(Last(history.undo_stack)), panic |-> FALSE]

\* History::pop_undo: [history, transaction (an Option), panic]
history_pop_undo(history) ==
    IF history.transaction_depth # 0
    THEN [history |-> history, transaction |-> None, panic |-> TRUE]
    ELSE IF history.undo_stack = <<>>
    THEN [history |-> history, transaction |-> None, panic |-> FALSE]
    ELSE LET t == Last(history.undo_stack)
         IN  [history |-> [history EXCEPT
                              !.undo_stack = SubSeq(@, 1, Len(@) - 1),
                              !.redo_stack = Append(@, t)],
              transaction |-> Some(t), panic |-> FALSE]

\* History::pop_redo
history_pop_redo(history) ==
    IF history.transaction_depth # 0
    THEN [history |-> history, transaction |-> None, panic |-> TRUE]
    ELSE IF history.redo_stack = <<>>
    THEN [history |-> history, transaction |-> None, panic |-> FALSE]
    ELSE LET t == Last(history.redo_stack)
         IN  [history |-> [history EXCEPT
                              !.redo_stack = SubSeq(@, 1, Len(@) - 1),
                              !.undo_stack = Append(@, t)],
              transaction |-> Some(t), panic |-> FALSE]

----------------------------------------------------------------------------
(* Buffer *)

\* Buffer::build
BufferNew(replica_id, base_text) ==
    LET base_insertion == [id |-> LocalDefault, parent_id |-> LocalDefault,
                           offset_in_parent |-> 0, text |-> base_text,
                           lamport_timestamp |-> LamportDefault]
        sentinel == [FragmentNew(FRAGMENT_ID_MIN_VALUE, base_insertion) EXCEPT !.end = 0]
        base_fragment_id == between(FRAGMENT_ID_MIN_VALUE, FRAGMENT_ID_MAX_VALUE)
        nonempty == Len(base_text) > 0
    IN  [fragments |->
            IF nonempty THEN <<sentinel, FragmentNew(base_fragment_id, base_insertion)>>
            ELSE <<sentinel>>,
         insertion_splits |->
            Put(EmptyMap, LocalDefault,
                IF nonempty
                THEN <<[extent |-> 0, fragment_id |-> FRAGMENT_ID_MIN_VALUE],
                       [extent |-> Len(base_text), fragment_id |-> base_fragment_id]>>
                ELSE <<[extent |-> 0, fragment_id |-> FRAGMENT_ID_MIN_VALUE]>>),
         version |-> GlobalNew,
         saved_version |-> GlobalNew,
         last_edit |-> LocalDefault,
         undo_map |-> EmptyMap,
         history |-> HistoryNew(base_text),
         file |-> "None",
         selections |-> EmptyMap,
         selections_last_update |-> 0,
         deferred_ops |-> <<>>,
         deferred_replicas |-> {},
         replica_id |-> replica_id,
         local_clock |-> LocalNew(replica_id),
         lamport_clock |-> LamportNew(replica_id)]

\* Buffer::is_dirty
is_dirty(buf) == GlobalGt(buf.version, buf.saved_version) \/ buf.file = "Deleted"

\* Buffer::save: the version the spawned task holds until the file is written
save(buf) == buf.version

\* a did_save that takes the version of the buffer at the end of the save
did_save_now(buf, version) ==
    [buf |-> [buf EXCEPT !.saved_version = buf.version], events |-> <<"Saved">>]

\* Buffer::did_save, with no new file: [buf, events]
did_save(buf, version) ==
    [buf |-> [buf EXCEPT !.saved_version = version], events |-> <<"Saved">>]

\* the closure Buffer::build gives to file.observe_from_model: the events it emits
\* when the file handle has changed
file_changed(buf) ==
    IF buf.version = buf.saved_version /\ buf.file = "Deleted"
    THEN <<"Dirtied", "FileHandleChanged">>
    ELSE <<"FileHandleChanged">>

\* Buffer::deferred_ops_len
deferred_ops_len(buf) == Len(buf.deferred_ops)

Result(buf, ops, err) == [buf |-> buf, ops |-> ops, err |-> err]

\* the selections argument of start/end_transaction_at: [ok, selections (an Option)]
lookup_selections(buf, set_id) ==
    IF ~IsSome(set_id) THEN [ok |-> TRUE, selections |-> None]
    ELSE IF Unwrap(set_id) \in DOMAIN buf.selections
    THEN [ok |-> TRUE,
          selections |-> Some(<<Unwrap(set_id), buf.selections[Unwrap(set_id)]>>)]
    ELSE [ok |-> FALSE, selections |-> None]

\* Buffer::start_transaction_at
start_transaction_at(buf, set_id, at) ==
    LET l == lookup_selections(buf, set_id)
    IN  IF ~l.ok THEN Result(buf, <<>>, "Err")
        ELSE Result([buf EXCEPT !.history =
                        history_start_transaction(@, buf.version, is_dirty(buf),
                                                  l.selections, at)],
                    <<>>, "Ok")

\* Buffer::end_transaction_at
end_transaction_at(buf, set_id, at) ==
    LET l == lookup_selections(buf, set_id)
        ended(e) ==
            IF e.panic THEN Result(buf, <<>>, "Panic")
            ELSE IF IsSome(e.transaction)
            THEN Result([buf EXCEPT !.history = history_group(e.history)], <<>>, "Ok")
            ELSE Result([buf EXCEPT !.history = e.history], <<>>, "Ok")
    IN  IF ~l.ok THEN Result(buf, <<>>, "Err")
        ELSE ended(history_end_transaction(buf.history, l.selections, at))

RECURSIVE push_edits(_, _, _)
\* for op in &ops { self.history.push(edit.clone()); self.history.push_undo(edit.id) }
push_edits(history, ops, k) ==
    IF k > Len(ops) THEN history
    ELSE push_edits(history_push_undo(history_push(history, ops[k].edit), ops[k].edit.id),
                    ops, k + 1)

\* Buffer::edit.  `spliced` is the part of the function after splice_fragments has
\* returned, `ended` the part after end_transaction_at has.
edit(buf, old_ranges, new_text, at) ==
    LET ended(sp, e) == Result(e.buf, sp.ops, e.err)
        spliced(sp) ==
            IF sp.panic THEN Result(sp.buf, <<>>, "Panic")
            ELSE ended(sp,
                   end_transaction_at(
                     IF sp.ops # <<>>
                     THEN [sp.buf EXCEPT !.history = push_edits(@, sp.ops, 1),
                                         !.last_edit = Last(sp.ops).edit.id,
                                         !.version = GlobalObserve(@, Last(sp.ops).edit.id)]
                     ELSE sp.buf,
                     None, at))
    IN  spliced(splice_fragments(start_transaction_at(buf, None, at).buf,
                                 SelectSeq(old_ranges,
                                           LAMBDA r : IsSome(new_text) \/ r.end > r.start),
                                 new_text))

----------------------------------------------------------------------------
(* Anchors and selection sets *)

AnchorStart == [kind |-> "Start"]
AnchorEnd == [kind |-> "End"]
AnchorMiddle(insertion_id, offset, bias) ==
    [kind |-> "Middle", insertion_id |-> insertion_id, offset |-> offset, bias |-> bias]

\* an anchor_at that anchors every offset to the fragment it seeks to
anchor_at_fragment(buf, offset, bias) ==
    LET i == SeekOffset(buf.fragments, 1, offset, bias)
        fragment == buf.fragments[i]
        offset_in_fragment == offset - CursorStart(buf.fragments, i)
    IN  AnchorMiddle(fragment.insertion.id, start_offset(fragment) + offset_in_fragment, bias)

\* Buffer::anchor_at, for an offset within the buffer
anchor_at(buf, offset, bias) ==
    IF bias = "Left" /\ offset = 0 THEN AnchorStart
    ELSE IF bias = "Right" /\ offset = len(buf) THEN AnchorEnd
    ELSE LET i == SeekOffset(buf.fragments, 1, offset, bias)
             fragment == buf.fragments[i]
             offset_in_fragment == offset - CursorStart(buf.fragments, i)
         IN  AnchorMiddle(fragment.insertion.id,
                          start_offset(fragment) + offset_in_fragment, bias)

anchor_before(buf, offset) == anchor_at(buf, offset, "Left")
anchor_after(buf, offset) == anchor_at(buf, offset, "Right")

\* a summary_for_anchor that stops at the start of the fragment of the anchor
anchor_to_fragment_start(buf, anchor) ==
    IF anchor.kind = "Start" THEN [ok |-> TRUE, offset |-> 0]
    ELSE IF anchor.kind = "End" THEN [ok |-> TRUE, offset |-> len(buf)]
    ELSE IF anchor.insertion_id \notin DOMAIN buf.insertion_splits
    THEN [ok |-> FALSE, offset |-> 0]
    ELSE LET splits == buf.insertion_splits[anchor.insertion_id]
             k == SplitSeek(splits, anchor.offset, anchor.bias)
         IN  IF k > Len(splits) THEN [ok |-> FALSE, offset |-> 0]
             ELSE LET i == SeekFragmentId(buf.fragments, 1, splits[k].fragment_id)
                  IN  IF i > Len(buf.fragments) THEN [ok |-> FALSE, offset |-> 0]
                      ELSE [ok |-> TRUE, offset |-> CursorStart(buf.fragments, i)]

\* Buffer::summary_for_anchor, the chars field (ToOffset for Anchor): [ok, offset]
anchor_to_offset(buf, anchor) ==
    IF anchor.kind = "Start" THEN [ok |-> TRUE, offset |-> 0]
    ELSE IF anchor.kind = "End" THEN [ok |-> TRUE, offset |-> len(buf)]
    ELSE IF anchor.insertion_id \notin DOMAIN buf.insertion_splits
    THEN [ok |-> FALSE, offset |-> 0]
    ELSE LET splits == buf.insertion_splits[anchor.insertion_id]
             k == SplitSeek(splits, anchor.offset, anchor.bias)
         IN  IF k > Len(splits) THEN [ok |-> FALSE, offset |-> 0]
             ELSE LET i == SeekFragmentId(buf.fragments, 1, splits[k].fragment_id)
                  IN  IF i > Len(buf.fragments) THEN [ok |-> FALSE, offset |-> 0]
                      ELSE LET fragment == buf.fragments[i]
                           IN  [ok |-> TRUE,
                                offset |-> CursorStart(buf.fragments, i)
                                           + (IF fragment.visible
                                              THEN anchor.offset - start_offset(fragment)
                                              ELSE 0)]

\* Buffer::edit with ranges of anchors (S = Anchor): start_transaction_at comes first,
\* then every endpoint is resolved with to_offset, and a failure of one of them is
\* returned with `?`; with all of them resolved the rest is the edit of the offsets
edit_anchors(buf, old_ranges, new_text, at) ==
    LET resolved(k) == [start |-> anchor_to_offset(buf, old_ranges[k].start),
                        end |-> anchor_to_offset(buf, old_ranges[k].end)]
    IN  IF \E k \in 1..Len(old_ranges) : ~resolved(k).start.ok \/ ~resolved(k).end.ok
        THEN Result(start_transaction_at(buf, None, at).buf, <<>>, "Err")
        ELSE edit(buf,
                  [k \in 1..Len(old_ranges) |->
                     [start |-> resolved(k).start.offset, end |-> resolved(k).end.offset]],
                  new_text, at)

\* selections_from_ranges, for one range
selection_from_range(buf, range) ==
    IF range.start > range.end
    THEN [start |-> anchor_before(buf, range.end), end |-> anchor_before(buf, range.start),
          reversed |-> TRUE]
    ELSE [start |-> anchor_after(buf, range.start), end |-> anchor_before(buf, range.end),
          reversed |-> FALSE]

\* Buffer::add_selection_set: the set id is the Lamport timestamp of the call
add_selection_set(buf, selections) ==
    LET lamport_timestamp == buf.lamport_clock
    IN  Result([buf EXCEPT !.lamport_clock = LamportTick(@),
                           !.selections = Put(@, lamport_timestamp, selections),
                           !.selections_last_update = @ + 1],
               <<OperationUpdateSelections(lamport_timestamp, Some(selections),
                                           lamport_timestamp)>>,
               "Ok")

\* Buffer::update_selection_set
update_selection_set(buf, set_id, selections) ==
    LET lamport_timestamp == buf.lamport_clock
    IN  Result([buf EXCEPT !.selections = Put(@, set_id, selections),
                           !.lamport_clock = LamportTick(@),
                           !.selections_last_update = @ + 1],
               <<OperationUpdateSelections(set_id, Some(selections), lamport_timestamp)>>,
               "Ok")

\* Buffer::remove_selection_set
remove_selection_set(buf, set_id) ==
    IF set_id \notin DOMAIN buf.selections THEN Result(buf, <<>>, "Err")
    ELSE LET lamport_timestamp == buf.lamport_clock
         IN  Result([buf EXCEPT !.selections = Remove(@, set_id),
                                !.lamport_clock = LamportTick(@),
                                !.selections_last_update = @ + 1],
                    <<OperationUpdateSelections(set_id, None, lamport_timestamp)>>,
                    "Ok")

----------------------------------------------------------------------------
(* Undo and redo *)

RECURSIVE refresh_splits(_, _, _, _, _)
\* the loop of Buffer::apply_undo over the splits of an insertion: every fragment
\* named by a split gets its visibility recomputed
refresh_splits(frags, undo_map, undo_id, split_ids, from) ==
    IF split_ids = <<>> THEN [fragments |-> frags, panic |-> FALSE]
    ELSE LET i == SeekFragmentId(frags, from, Head(split_ids))
         IN  IF i > Len(frags) THEN [fragments |-> frags, panic |-> TRUE]
             ELSE refresh_splits(
                     [frags EXCEPT ![i] = [@ EXCEPT !.visible = is_visible(frags[i], undo_map),
                                                    !.max_undos = GlobalObserve(@, undo_id)]],
                     undo_map, undo_id, Tail(split_ids), i + 1)

\* an apply_undo loop that leaves the stored flags as they are
refresh_range_stale(frags, undo_map, undo, edit_op, from_to) == frags

RECURSIVE refresh_range(_, _, _, _, _)
\* the loop of Buffer::apply_undo over the fragments up to end_fragment_id
refresh_range(frags, undo_map, undo, edit_op, from_to) ==
    LET i == from_to[1]
        end_fragment_id == from_to[2]
    IN  IF i > Len(frags) \/ FragmentIdLess(end_fragment_id, frags[i].id) THEN frags
        ELSE LET fragment == frags[i]
                 touched == \/ GlobalObserved(edit_op.version_in_range, fragment.insertion.id)
                            \/ fragment.insertion.id = undo.edit_id
             IN  refresh_range(
                     IF touched
                     THEN [frags EXCEPT ![i] = [@ EXCEPT !.visible = is_visible(fragment, undo_map),
                                                        !.max_undos = GlobalObserve(@, undo.id)]]
                     ELSE frags,
                     undo_map, undo, edit_op, <<i + 1, end_fragment_id>>)

\* Buffer::apply_undo: [buf, err]
apply_undo(buf, undo) ==
    LET undo_map == UndoMapInsert(buf.undo_map, undo)
        b1 == [buf EXCEPT !.undo_map = undo_map]
        refreshed(r) ==
            IF r.panic THEN [buf |-> b1, err |-> "Panic"]
            ELSE [buf |-> [b1 EXCEPT !.fragments = r.fragments], err |-> "Ok"]
        resolved(edit_op, start_fragment, end_fragment) ==
            IF ~start_fragment.ok \/ ~end_fragment.ok THEN [buf |-> b1, err |-> "Err"]
            ELSE IF edit_op.start_id = edit_op.end_id
                    /\ edit_op.start_offset = edit_op.end_offset
            THEN IF undo.edit_id \notin DOMAIN buf.insertion_splits
                 THEN [buf |-> b1, err |-> "Panic"]
                 ELSE LET splits == buf.insertion_splits[undo.edit_id]
                      IN  refreshed(refresh_splits(
                                      buf.fragments, undo_map, undo.id,
                                      [k \in 1..Len(splits) |-> splits[k].fragment_id], 1))
            ELSE [buf |-> [b1 EXCEPT !.fragments =
                              refresh_range(buf.fragments, undo_map, undo, edit_op,
                                            <<SeekFragmentId(buf.fragments, 1, start_fragment.id),
                                              end_fragment.id>>)],
                  err |-> "Ok"]
        found(edit_op) ==
            resolved(edit_op,
                     resolve_fragment_id(buf.insertion_splits, edit_op.start_id,
                                         edit_op.start_offset),
                     resolve_fragment_id(buf.insertion_splits, edit_op.end_id,
                                         edit_op.end_offset))
    IN  IF undo.edit_id \notin DOMAIN buf.history.ops THEN [buf |-> b1, err |-> "Panic"]
        ELSE found(buf.history.ops[undo.edit_id])

\* an undo_or_redo that takes the version back to before the edit
undo_or_redo_rewinding(buf, edit_id) ==
    LET undo == [id |-> buf.local_clock, edit_id |-> edit_id,
                 count |-> undo_count(buf.undo_map, edit_id) + 1]
        applied(a) ==
            IF a.err # "Ok" THEN Result(a.buf, <<>>, a.err)
            ELSE Result([a.buf EXCEPT !.version[edit_id.replica_id] = edit_id.value - 1,
                                      !.lamport_clock = LamportTick(@)],
                        <<OperationUndo(undo, a.buf.lamport_clock)>>, "Ok")
    IN  applied(apply_undo([buf EXCEPT !.local_clock = LocalTick(@)], undo))

\* Buffer::undo_or_redo
undo_or_redo(buf, edit_id) ==
    LET undo == [id |-> buf.local_clock, edit_id |-> edit_id,
                 count |-> undo_count(buf.undo_map, edit_id) + 1]
        applied(a) ==
            IF a.err # "Ok" THEN Result(a.buf, <<>>, a.err)
            ELSE Result([a.buf EXCEPT !.version = GlobalObserve(@, undo.id),
                                      !.lamport_clock = LamportTick(@)],
                        <<OperationUndo(undo, a.buf.lamport_clock)>>, "Ok")
    IN  applied(apply_undo([buf EXCEPT !.local_clock = LocalTick(@)], undo))

RECURSIVE undo_edits(_, _, _)
\* for edit_id in transaction.edits.clone() { ops.push(self.undo_or_redo(edit_id).unwrap()) }
undo_edits(res, edits, k) ==
    LET pushed(u) == Result(u.buf, res.ops \o u.ops, IF u.err = "Ok" THEN "Ok" ELSE "Panic")
    IN  IF k > Len(edits) \/ res.err # "Ok" THEN res
        ELSE undo_edits(pushed(undo_or_redo(res.buf, edits[k])), edits, k + 1)

\* the body shared by Buffer::undo and Buffer::redo once the transaction is popped:
\* the Operation returned by update_selection_set is dropped (`let _ = ...`)
revert_transaction(buf, transaction, selections) ==
    LET restored(u) ==
            IF u.err # "Ok" THEN u
            ELSE IF IsSome(selections)
            THEN Result(update_selection_set(u.buf, Unwrap(selections)[1],
                                             Unwrap(selections)[2]).buf,
                        u.ops, "Ok")
            ELSE u
    IN  restored(undo_edits(Result(buf, <<>>, "Ok"), transaction.edits, 1))

\* Buffer::undo
undo(buf) ==
    LET p == history_pop_undo(buf.history)
    IN  IF p.panic THEN Result(buf, <<>>, "Panic")
        ELSE IF ~IsSome(p.transaction) THEN Result(buf, <<>>, "Ok")
        ELSE revert_transaction([buf EXCEPT !.history = p.history], Unwrap(p.transaction),
                                Unwrap(p.transaction).selections_before)

\* a redo that puts back the selections of the start of the transaction
redo_selections_before(buf) ==
    IF buf.history.transaction_depth # 0 THEN Result(buf, <<>>, "Panic")
    ELSE IF buf.history.redo_stack = <<>> THEN Result(buf, <<>>, "Ok")
    ELSE revert_transaction([buf EXCEPT !.history = history_pop_redo(@).history],
                            Last(buf.history.redo_stack),
                            Last(buf.history.redo_stack).selections_before)

\* Buffer::redo
redo(buf) ==
    LET p == history_pop_redo(buf.history)
    IN  IF p.panic THEN Result(buf, <<>>, "Panic")
        ELSE IF ~IsSome(p.transaction) THEN Result(buf, <<>>, "Ok")
        ELSE revert_transaction([buf EXCEPT !.history = p.history], Unwrap(p.transaction),
                                Unwrap(p.transaction).selections_after)

----------------------------------------------------------------------------
(* Buffer::edits_since and the events of a call *)

\* struct Edit
Edit(old_start, old_end, new_start, new_end) ==
    [old_range |-> [start |-> old_start, end |-> old_end],
     new_range |-> [start |-> new_start, end |-> new_end]]

\* the body of the loop of Edits::next for the fragment under the cursor.  The state
\* `s` is [i, delta, change, out]: the cursor, self.delta, the local `change` and the
\* Edit records the calls of next() have returned so far; a `break` ends one call of
\* next(), and the call after it starts at the same fragment with no change
edits_step(fragment, new_offset, was, s) ==
    IF ~was /\ fragment.visible
    THEN IF IsSome(s.change)
         THEN IF Unwrap(s.change).new_range.end = new_offset
              THEN [s EXCEPT !.change = Some([Unwrap(@) EXCEPT
                                                !.new_range.end = @ + FragmentLen(fragment)]),
                             !.delta = @ + FragmentLen(fragment),
                             !.i = @ + 1]
              ELSE [s EXCEPT !.out = Append(@, Unwrap(s.change)), !.change = None]
         ELSE [s EXCEPT !.change = Some(Edit(new_offset - s.delta, new_offset - s.delta,
                                             new_offset, new_offset + FragmentLen(fragment))),
                        !.delta = @ + FragmentLen(fragment),
                        !.i = @ + 1]
    ELSE IF was /\ ~fragment.visible
    THEN IF IsSome(s.change)
         THEN IF Unwrap(s.change).new_range.end = new_offset
              THEN [s EXCEPT !.change = Some([Unwrap(@) EXCEPT
                                                !.old_range.end = @ + FragmentLen(fragment)]),
                             !.delta = @ - FragmentLen(fragment),
                             !.i = @ + 1]
              ELSE [s EXCEPT !.out = Append(@, Unwrap(s.change)), !.change = None]
         ELSE [s EXCEPT !.change = Some(Edit(new_offset - s.delta,
                                             new_offset - s.delta + FragmentLen(fragment),
                                             new_offset, new_offset)),
                        !.delta = @ - FragmentLen(fragment),
                        !.i = @ + 1]
    ELSE [s EXCEPT !.i = @ + 1]

RECURSIVE edits_next(_, _, _, _)
\* Edits::next, called until it returns None, over the filter cursor of edits_since:
\* the fragments whose summary has changed since `since`
edits_next(frags, undos, since, s) ==
    IF s.i > Len(frags)
    THEN s.out \o s.change
    ELSE IF ~GlobalChangedSince(max_version(frags[s.i]), since)
    THEN edits_next(frags, undos, since, [s EXCEPT !.i = @ + 1])
    ELSE edits_next(frags, undos, since,
                    edits_step(frags[s.i], CursorStart(frags, s.i),
                               was_visible(frags[s.i], since, undos), s))

\* an edits_since that reports every change made to the base text
edits_since_new(buf, since) ==
    edits_next(buf.fragments, buf.undo_map, GlobalNew,
               [i |-> 1, delta |-> 0, change |-> None, out |-> <<>>])

\* Buffer::edits_since, collected
edits_since(buf, since) ==
    edits_next(buf.fragments, buf.undo_map, since,
               [i |-> 1, delta |-> 0, change |-> None, out |-> <<>>])

\* Buffer::did_edit: the events it emits
did_edit(was_dirty) == IF was_dirty THEN <<"Edited">> ELSE <<"Edited", "Dirtied">>

\* every call with a context counts as an edit
events_notified(buf, old_version, was_dirty) == did_edit(was_dirty)

\* the events a call emits when it is given a context: did_edit if
\* edits_since(old_version) yields an Edit
events_since(buf, old_version, was_dirty) ==
    IF edits_since(buf, old_version) # <<>> THEN did_edit(was_dirty) ELSE <<>>

\* every transaction that ends counts as an edit
transaction_events_always(ended, buf) ==
    IF ~ended.panic /\ IsSome(ended.transaction)
    THEN did_edit(Unwrap(ended.transaction).buffer_was_dirty)
    ELSE <<>>

\* the events of Buffer::end_transaction_at with a context: `ended` is what
\* History::end_transaction returned and buf the buffer after the call
transaction_events(ended, buf) ==
    IF ~ended.panic /\ IsSome(ended.transaction)
    THEN events_since(buf, Unwrap(ended.transaction).start,
                      Unwrap(ended.transaction).buffer_was_dirty)
    ELSE <<>>

\* the events of buffer.end_transaction(set_id, Some(ctx))
end_transaction_events(buf, set_id, at) ==
    IF end_transaction_at(buf, set_id, at).err # "Ok" THEN <<>>
    ELSE transaction_events(history_end_transaction(buf.history, None, at),
                            end_transaction_at(buf, set_id, at).buf)

\* the events of buffer.edit(old_ranges, new_text, Some(ctx)): those of the
\* end_transaction_at that ends the transaction the call started
edit_events(buf, old_ranges, new_text, at) ==
    IF edit(buf, old_ranges, new_text, at).err # "Ok" THEN <<>>
    ELSE transaction_events(
            history_end_transaction(start_transaction_at(buf, None, at).buf.history, None, at),
            edit(buf, old_ranges, new_text, at).buf)

----------------------------------------------------------------------------
(* Remote operations *)

\* build_fragment_to_insert as Buffer::apply_edit uses it on its loop state
apply_edit_insert(s, prev_fragment, next_fragment, e) ==
    LET b == build_fragment_to_insert(s.splits, prev_fragment, next_fragment, s.new_text,
                                      e.local_timestamp, e.lamport_timestamp)
    IN  [s EXCEPT !.nf = Append(@, b.fragment), !.splits = b.insertion_splits,
                  !.new_text = None]

\* the branch of the loop of Buffer::apply_edit for a fragment that holds the start
\* or the end of the edit, once split_fragment has returned `sp`: the insertion is
\* built before the pieces are pushed, and pushed after the piece before the range
apply_edit_split(undo_map, e, s, prev_item, sp) ==
    LET within == IF IsSome(sp.within)
                  THEN IF was_visible(Unwrap(sp.within), e.version_in_range, undo_map)
                       THEN <<[Unwrap(sp.within) EXCEPT
                                 !.deletions = @ \cup {e.local_timestamp},
                                 !.visible = FALSE]>>
                       ELSE sp.within
                  ELSE <<>>
        pushed(ins) ==
            [s EXCEPT !.nf = @ \o sp.before \o <<ins.fragment>> \o within \o sp.after,
                      !.splits = ins.insertion_splits,
                      !.new_text = None,
                      !.ci = @ + 1]
    IN  IF IsSome(s.new_text)
        THEN pushed(build_fragment_to_insert(
                        sp.insertion_splits,
                        IF IsSome(sp.before) THEN Unwrap(sp.before) ELSE prev_item,
                        IF IsSome(sp.within) THEN sp.within ELSE sp.after,
                        s.new_text, e.local_timestamp, e.lamport_timestamp))
        ELSE [s EXCEPT !.nf = @ \o sp.before \o within \o sp.after,
                       !.splits = sp.insertion_splits,
                       !.ci = @ + 1]

\* an insertion that goes before the first other fragment, whatever its timestamp
apply_edit_before_any(s, prev_item, fragment, e) ==
    IF IsSome(s.new_text)
    THEN apply_edit_insert(s, prev_item, Some(fragment), e)
    ELSE s

\* an insertion that never goes before another fragment
apply_edit_before_never(s, prev_item, fragment, e) == s

\* the branch of the loop for any other fragment, first half: the insertion goes
\* before a fragment with a lower Lamport timestamp
apply_edit_before(s, prev_item, fragment, e) ==
    IF IsSome(s.new_text)
       /\ LamportLess(fragment.insertion.lamport_timestamp, e.lamport_timestamp)
    THEN apply_edit_insert(s, prev_item, Some(fragment), e)
    ELSE s

\* the branch of the loop for any other fragment, second half: the fragment is
\* deleted if the edit saw it and covers it, and pushed
apply_edit_other(undo_map, e, s, fragment) ==
    [s EXCEPT !.nf = Append(@, IF FragmentIdLess(fragment.id, e.end_fragment_id)
                                  /\ was_visible(fragment, e.version_in_range, undo_map)
                               THEN [fragment EXCEPT !.deletions = @ \cup {e.local_timestamp},
                                                     !.visible = FALSE]
                               ELSE fragment),
              !.ci = @ + 1]

RECURSIVE apply_edit_loop(_, _, _, _)
\* while let Some(fragment) = cursor.item(); `e` holds the arguments of apply_edit and
\* the two resolved fragment ids, `s` the locals: nf = new_fragments, ci = the cursor,
\* new_text = what is still to be inserted
apply_edit_loop(old, undo_map, e, s) ==
    IF s.ci > Len(old) THEN s
    ELSE
    LET fragment == old[s.ci]
        prev_item == old[s.ci - 1]
    IN  IF ~IsSome(s.new_text) /\ FragmentIdLess(e.end_fragment_id, fragment.id) THEN s
        ELSE IF s.ci = 1 THEN [s EXCEPT !.panic = TRUE]
        ELSE IF fragment.id = e.start_fragment_id \/ fragment.id = e.end_fragment_id
        THEN apply_edit_loop(old, undo_map, e,
                apply_edit_split(undo_map, e, s, prev_item,
                    split_fragment(s.splits, prev_item, fragment,
                                   IF e.start_fragment_id = fragment.id THEN e.start_offset
                                   ELSE start_offset(fragment),
                                   IF e.end_fragment_id = fragment.id THEN e.end_offset
                                   ELSE end_offset(fragment))))
        ELSE apply_edit_loop(old, undo_map, e,
                apply_edit_other(undo_map, e,
                                 apply_edit_before(s, prev_item, fragment, e), fragment))

\* Buffer::apply_edit: [buf, err].  `sought` is the function from the seek of the
\* cursor on, `looped` from the end of its loop on (if let Some(new_text) = new_text:
\* the text goes after everything seen), `finished` its last statements.
apply_edit(buf, start_id, start_off, end_id, end_off, new_text, version_in_range, local_timestamp, lamport_timestamp) ==
    LET old == buf.fragments
        finished(t) ==
            [buf |-> [buf EXCEPT
                        !.fragments = t.nf \o Suffix(old, t.ci),
                        !.insertion_splits = t.splits,
                        !.local_clock = LocalObserve(@, local_timestamp),
                        !.lamport_clock = LamportObserve(@, lamport_timestamp)],
             err |-> "Ok"]
        looped(e, s) ==
            IF s.panic THEN [buf |-> buf, err |-> "Panic"]
            ELSE IF IsSome(s.new_text)
            THEN finished(apply_edit_insert(s, old[s.ci - 1], None, e))
            ELSE finished(s)
        sought(e, c0) ==
            IF c0 > Len(old) THEN [buf |-> buf, err |-> "Panic"]
            ELSE looped(e,
                    apply_edit_loop(old, buf.undo_map, e,
                        IF start_off = end_offset(old[c0])
                        THEN [nf |-> Slice(old, 1, c0 + 1), ci |-> c0 + 1,
                              splits |-> buf.insertion_splits, new_text |-> new_text,
                              panic |-> FALSE]
                        ELSE [nf |-> Slice(old, 1, c0), ci |-> c0,
                              splits |-> buf.insertion_splits, new_text |-> new_text,
                              panic |-> FALSE]))
        resolved(start_fragment, end_fragment) ==
            IF ~start_fragment.ok \/ ~end_fragment.ok THEN [buf |-> buf, err |-> "Err"]
            ELSE sought([start_fragment_id |-> start_fragment.id, start_offset |-> start_off,
                         end_fragment_id |-> end_fragment.id, end_offset |-> end_off,
                         version_in_range |-> version_in_range,
                         local_timestamp |-> local_timestamp,
                         lamport_timestamp |-> lamport_timestamp],
                        SeekFragmentId(old, 1, start_fragment.id))
    IN  resolved(resolve_fragment_id(buf.insertion_splits, start_id, start_off),
                 resolve_fragment_id(buf.insertion_splits, end_id, end_off))

\* an apply_op that leaves the Lamport clock alone for Undo and UpdateSelections
apply_op_unobserved(buf, op) ==
    LET edited(a) ==
            IF a.err # "Ok" THEN [buf |-> a.buf, err |-> a.err, applied |-> FALSE]
            ELSE [buf |-> [a.buf EXCEPT !.version = GlobalObserve(@, op.edit.id),
                                        !.history = history_push(@, op.edit)],
                  err |-> "Ok", applied |-> TRUE]
        undone(a) ==
            IF a.err # "Ok" THEN [buf |-> a.buf, err |-> a.err, applied |-> FALSE]
            ELSE [buf |-> [a.buf EXCEPT
                             !.version = GlobalObserve(@, op.undo.id)],
                  err |-> "Ok", applied |-> TRUE]
    IN  IF op.type = "Edit"
        THEN IF ~GlobalObserved(buf.version, op.edit.id)
             THEN edited(apply_edit(buf, op.edit.start_id, op.edit.start_offset,
                                    op.edit.end_id, op.edit.end_offset, op.edit.new_text,
                                    op.edit.version_in_range, op.edit.id,
                                    op.lamport_timestamp))
             ELSE [buf |-> buf, err |-> "Ok", applied |-> FALSE]
        ELSE IF op.type = "Undo"
        THEN IF ~GlobalObserved(buf.version, op.undo.id)
             THEN undone(apply_undo(buf, op.undo))
             ELSE [buf |-> buf, err |-> "Ok", applied |-> FALSE]
        ELSE [buf |-> [buf EXCEPT
                         !.selections = IF IsSome(op.selections)
                                        THEN Put(@, op.set_id, Unwrap(op.selections))
                                        ELSE Remove(@, op.set_id),
                         !.selections_last_update = @ + 1],
              err |-> "Ok", applied |-> TRUE]

\* Buffer::apply_op: [buf, err, applied]; applied tells whether the operation took effect
apply_op(buf, op) ==
    LET edited(a) ==
            IF a.err # "Ok" THEN [buf |-> a.buf, err |-> a.err, applied |-> FALSE]
            ELSE [buf |-> [a.buf EXCEPT !.version = GlobalObserve(@, op.edit.id),
                                        !.history = history_push(@, op.edit)],
                  err |-> "Ok", applied |-> TRUE]
        undone(a) ==
            IF a.err # "Ok" THEN [buf |-> a.buf, err |-> a.err, applied |-> FALSE]
            ELSE [buf |-> [a.buf EXCEPT
                             !.version = GlobalObserve(@, op.undo.id),
                             !.lamport_clock = LamportObserve(@, op.lamport_timestamp)],
                  err |-> "Ok", applied |-> TRUE]
    IN  IF op.type = "Edit"
        THEN IF ~GlobalObserved(buf.version, op.edit.id)
             THEN edited(apply_edit(buf, op.edit.start_id, op.edit.start_offset,
                                    op.edit.end_id, op.edit.end_offset, op.edit.new_text,
                                    op.edit.version_in_range, op.edit.id,
                                    op.lamport_timestamp))
             ELSE [buf |-> buf, err |-> "Ok", applied |-> FALSE]
        ELSE IF op.type = "Undo"
        THEN IF ~GlobalObserved(buf.version, op.undo.id)
             THEN undone(apply_undo(buf, op.undo))
             ELSE [buf |-> buf, err |-> "Ok", applied |-> FALSE]
        ELSE [buf |-> [buf EXCEPT
                         !.selections = IF IsSome(op.selections)
                                        THEN Put(@, op.set_id, Unwrap(op.selections))
                                        ELSE Remove(@, op.set_id),
                         !.lamport_clock = LamportObserve(@, op.lamport_timestamp),
                         !.selections_last_update = @ + 1],
              err |-> "Ok", applied |-> TRUE]

anchor_observed(version, anchor) ==
    anchor.kind = "Middle" => GlobalObserved(version, anchor.insertion_id)

\* a can_apply_op that does not look at deferred_replicas
can_apply_op_unblocked(buf, op) ==
    IF op.type = "Edit"
    THEN /\ GlobalObserved(buf.version, op.edit.start_id)
         /\ GlobalObserved(buf.version, op.edit.end_id)
         /\ GlobalLeq(op.edit.version_in_range, buf.version)
    ELSE IF op.type = "Undo"
    THEN GlobalObserved(buf.version, op.undo.edit_id)
    ELSE IF IsSome(op.selections)
    THEN \A k \in 1..Len(Unwrap(op.selections)) :
            /\ anchor_observed(buf.version, Unwrap(op.selections)[k].start)
            /\ anchor_observed(buf.version, Unwrap(op.selections)[k].end)
    ELSE TRUE

\* Buffer::can_apply_op
can_apply_op(buf, op) ==
    IF op_replica_id(op) \in buf.deferred_replicas THEN FALSE
    ELSE IF op.type = "Edit"
    THEN /\ GlobalObserved(buf.version, op.edit.start_id)
         /\ GlobalObserved(buf.version, op.edit.end_id)
         /\ GlobalLeq(op.edit.version_in_range, buf.version)
    ELSE IF op.type = "Undo"
    THEN GlobalObserved(buf.version, op.undo.edit_id)
    ELSE IF IsSome(op.selections)
    THEN \A k \in 1..Len(Unwrap(op.selections)) :
            /\ anchor_observed(buf.version, Unwrap(op.selections)[k].start)
            /\ anchor_observed(buf.version, Unwrap(op.selections)[k].end)
    ELSE TRUE

\* crate::operation_queue::OperationQueue::insert: the queue is kept in the order of
\* the Lamport timestamps, one operation per timestamp
RECURSIVE queue_insert_one(_, _)
queue_insert_one(queue, op) ==
    IF queue = <<>> THEN <<op>>
    ELSE IF Head(queue).lamport_timestamp = op.lamport_timestamp
    THEN <<op>> \o Tail(queue)
    ELSE IF LamportLess(op.lamport_timestamp, Head(queue).lamport_timestamp)
    THEN <<op>> \o queue
    ELSE <<Head(queue)>> \o queue_insert_one(Tail(queue), op)

RECURSIVE queue_insert(_, _)
queue_insert(queue, ops) ==
    IF ops = <<>> THEN queue
    ELSE queue_insert(queue_insert_one(queue, Head(ops)), Tail(ops))

RECURSIVE apply_each(_, _)
\* the loop shared by Buffer::apply_ops and Buffer::flush_deferred_ops; the state `s`
\* is [buf, deferred, applied, err]: an error leaves the loop at once (`?`)
apply_each(s, ops) ==
    LET op == Head(ops)
        applied(a) == [s EXCEPT !.buf = a.buf, !.err = a.err,
                                !.applied = IF a.applied THEN Append(@, op) ELSE @]
    IN  IF ops = <<>> \/ s.err # "Ok" THEN s
        ELSE IF can_apply_op(s.buf, op)
        THEN apply_each(applied(apply_op(s.buf, op)), Tail(ops))
        ELSE apply_each([s EXCEPT !.buf.deferred_replicas = @ \cup {op_replica_id(op)},
                                  !.deferred = Append(@, op)],
                        Tail(ops))

\* self.deferred_ops.insert(deferred_ops), unless an operation has failed
insert_deferred(s) ==
    IF s.err # "Ok" THEN s
    ELSE [s EXCEPT !.buf.deferred_ops = queue_insert(@, s.deferred)]

\* Buffer::flush_deferred_ops on the loop state of apply_ops
flush_deferred_ops(s) ==
    IF s.err # "Ok" THEN s
    ELSE insert_deferred(apply_each([s EXCEPT !.buf.deferred_replicas = {},
                                              !.buf.deferred_ops = <<>>,
                                              !.deferred = <<>>],
                                    s.buf.deferred_ops))

\* Buffer::apply_ops: [buf, deferred, applied, err]; applied lists the operations that
\* took effect, in the order in which they did
apply_ops(buf, ops) ==
    flush_deferred_ops(
        insert_deferred(
            apply_each([buf |-> buf, deferred |-> <<>>, applied |-> <<>>, err |-> "Ok"],
                       ops)))

\* the events of buffer.undo(Some(ctx)) and of buffer.redo(Some(ctx))
undo_events(buf) == events_since(undo(buf).buf, buf.version, is_dirty(buf))
redo_events(buf) == events_since(redo(buf).buf, buf.version, is_dirty(buf))

\* the events of buffer.apply_ops(ops, Some(ctx)); a failure returns before them
apply_ops_events(buf, ops) ==
    IF apply_ops(buf, ops).err # "Ok" THEN <<>>
    ELSE events_since(apply_ops(buf, ops).buf, buf.version, is_dirty(buf))

----------------------------------------------------------------------------
(* The replicas and the network of test_random_concurrent_edits *)

BaseText == <<"a", "b">>

\* the text a replica types: each replica has a letter of its own
TypedText(r) == IF r = 0 THEN <<"x">> ELSE <<"y">>

Range(a, b) == [start |-> a, end |-> b]

\* the (old_ranges, new_text) a local edit is given for a buffer of length n: an
\* insertion at the start or at the end, a deletion of the first character, a
\* replacement of the last one, an insertion at both ends
EditChoices(r, n) ==
    {<<<<Range(i, i)>>, TypedText(r)>> : i \in {0, n}}
    \cup (IF n >= 1 THEN {<<<<Range(0, 1)>>, None>>, <<<<Range(n - 1, n)>>, TypedText(r)>>,
                          <<<<Range(0, 0), Range(n, n)>>, TypedText(r)>>}
          ELSE {})

\* the ranges a selection set is built from: everything, backwards
SelectionChoices(n) == {<<Range(n, 0)>>}

RECURSIVE replace_ranges(_, _, _)
\* for old_range in old_ranges.iter().rev() { reference_string = [..].concat() }
replace_ranges(string, old_ranges, new_text) ==
    IF old_ranges = <<>> THEN string
    ELSE LET old_range == Last(old_ranges)
         IN  replace_ranges(SubSeq(string, 1, old_range.start) \o new_text
                                \o SubSeq(string, old_range.end + 1, Len(string)),
                            SubSeq(old_ranges, 1, Len(old_ranges) - 1), new_text)

\* selections_from_ranges, for ranges already sorted by their start
selections_from_ranges(buf, ranges) ==
    [k \in 1..Len(ranges) |-> selection_from_range(buf, ranges[k])]

SeqToSet(seq) == {seq[k] : k \in 1..Len(seq)}

op_id(op) == op.lamport_timestamp

\* the Lamport timestamps of a sequence of operations
op_ids(ops) == [k \in 1..Len(ops) |-> op_id(ops[k])]

AllOk == \A r \in ReplicaIds : apply_result[r] = "Ok"

\* Network::broadcast and the bookkeeping around a local mutation of replica r that
\* returned res = [buf, ops, err]
Broadcast(r, res) ==
    /\ buffers' = [buffers EXCEPT ![r] = res.buf]
    /\ apply_result' = [apply_result EXCEPT ![r] = IF res.err = "Ok" THEN "Ok" ELSE "LocalFailure"]
    /\ sent' = [sent EXCEPT ![r] = @ \o [k \in 1..Len(res.ops) |->
                           [op |-> res.ops[k],
                            seen |-> SeqToSet(applied_log[r])
                                     \cup {op_id(res.ops[j]) : j \in 1..(k - 1)}]]]
    /\ network' = [q \in ReplicaIds |->
                     IF q = r THEN network[q]
                     ELSE network[q] \cup
                          {<<r, k>> : k \in (Len(sent[r]) + 1)..(Len(sent[r]) + Len(res.ops))}]
    /\ applied_log' = [applied_log EXCEPT ![r] = @ \o op_ids(res.ops)]

Init ==
    /\ buffers = [r \in ReplicaIds |-> BufferNew(r, BaseText)]
    /\ network = [r \in ReplicaIds |-> {}]
    /\ sent = [r \in ReplicaIds |-> <<>>]
    /\ mutation_count = MaxMutations
    /\ reference_string = [r \in ReplicaIds |-> BaseText]
    /\ applied_log = [r \in ReplicaIds |-> <<>>]
    /\ apply_result = [r \in ReplicaIds |-> "Ok"]
    /\ now = 0
    /\ last_action = [kind |-> "new"]
    /\ snapshots = [open |-> <<>>, undo |-> <<>>, redo |-> <<>>]

\* randomly_edit: buffer.edit(old_ranges, new_text)
LocalEdit(r) ==
    /\ AllOk /\ mutation_count # 0
    /\ \E c \in EditChoices(r, len(buffers[r])) :
          LET res == edit(buffers[r], c[1], c[2], now)
          IN  /\ Broadcast(r, res)
              /\ reference_string' =
                    [reference_string EXCEPT ![r] = replace_ranges(text(buffers[r]), c[1], c[2])]
    /\ mutation_count' = mutation_count - 1
    /\ UNCHANGED <<now, last_action, snapshots>>

RECURSIVE undo_redo_each(_, _)
\* for op in buffer.history.ops.values().choose_multiple(..) { buffer.undo_or_redo(..) }
undo_redo_each(res, edit_ids) ==
    LET pushed(u) == Result(u.buf, res.ops \o u.ops, IF u.err = "Ok" THEN "Ok" ELSE "Panic")
    IN  IF edit_ids = <<>> \/ res.err # "Ok" THEN res
        ELSE undo_redo_each(pushed(undo_or_redo(res.buf, Head(edit_ids))), Tail(edit_ids))

\* the sequences of at most n elements of S, the empty one left out
RECURSIVE SeqsUpTo(_, _)
SeqsUpTo(S, n) ==
    IF n = 0 THEN {}
    ELSE {<<x>> : x \in S} \cup {<<x>> \o t : x \in S, t \in SeqsUpTo(S, n - 1)}

\* randomly_undo_redo: undo_or_redo of edits chosen among history.ops
LocalUndoRedo(r) ==
    LET undone(res) ==
            /\ Broadcast(r, res)
            /\ reference_string' = [reference_string EXCEPT ![r] = text(res.buf)]
    IN  /\ AllOk /\ mutation_count # 0
        /\ \E edit_ids \in SeqsUpTo(DOMAIN buffers[r].history.ops, MaxUndoRedo) :
              undone(undo_redo_each(Result(buffers[r], <<>>, "Ok"), edit_ids))
        /\ mutation_count' = mutation_count - 1
        /\ UNCHANGED <<now, last_action, snapshots>>

\* the selection sets replica r created and still holds
OwnSelectionSets(r) == {set_id \in DOMAIN buffers[r].selections : set_id.replica_id = r}

\* add_selection_set with one of the given ranges
AddSelectionSetOf(r, choices) ==
    /\ AllOk /\ mutation_count # 0
    /\ \E ranges \in choices :
          /\ Broadcast(r, add_selection_set(buffers[r],
                                            selections_from_ranges(buffers[r], ranges)))
    /\ last_action' = [kind |-> "selections"]
    /\ mutation_count' = mutation_count - 1
    /\ UNCHANGED <<reference_string, now, snapshots>>

\* randomly_mutate: add_selection_set
AddSelectionSet(r) == AddSelectionSetOf(r, SelectionChoices(len(buffers[r])))

\* update_selection_set with one of the given ranges
UpdateSelectionSetOf(r, choices) ==
    /\ AllOk /\ mutation_count # 0
    /\ \E set_id \in OwnSelectionSets(r), ranges \in choices :
          /\ Broadcast(r, update_selection_set(buffers[r], set_id,
                                               selections_from_ranges(buffers[r], ranges)))
    /\ last_action' = [kind |-> "selections"]
    /\ mutation_count' = mutation_count - 1
    /\ UNCHANGED <<reference_string, now, snapshots>>

\* randomly_mutate: update_selection_set
UpdateSelectionSet(r) == UpdateSelectionSetOf(r, SelectionChoices(len(buffers[r])))

\* randomly_mutate: remove_selection_set
RemoveSelectionSet(r) ==
    /\ AllOk /\ mutation_count # 0
    /\ \E set_id \in OwnSelectionSets(r) :
          /\ Broadcast(r, remove_selection_set(buffers[r], set_id))
    /\ last_action' = [kind |-> "selections"]
    /\ mutation_count' = mutation_count - 1
    /\ UNCHANGED <<reference_string, now, snapshots>>

\* the batches the network may hand to a replica: at most MaxBatch of the operations
\* waiting for it, each once, in any order
Batches(pending) ==
    {b \in SeqsUpTo(pending, MaxBatch) : \A i, j \in 1..Len(b) : i # j => b[i] # b[j]}

\* buffer.apply_ops(network.receive(replica_id))
Receive(r) ==
    LET received(batch, res) ==
            /\ buffers' = [buffers EXCEPT ![r] = res.buf]
            /\ apply_result' = [apply_result EXCEPT ![r] = res.err]
            /\ applied_log' = [applied_log EXCEPT ![r] = @ \o op_ids(res.applied)]
            /\ network' = [network EXCEPT ![r] = @ \ SeqToSet(batch)]
            /\ reference_string' = [reference_string EXCEPT ![r] = text(res.buf)]
    IN  /\ AllOk
        /\ \E batch \in Batches(network[r]) :
              received(batch,
                       apply_ops(buffers[r],
                                 [k \in 1..Len(batch) |-> sent[batch[k][1]][batch[k][2]].op]))
        /\ UNCHANGED <<sent, mutation_count, now, last_action, snapshots>>

Next ==
    \E r \in ReplicaIds :
        \/ LocalEdit(r)
        \/ LocalUndoRedo(r)
        \/ AddSelectionSet(r)
        \/ UpdateSelectionSet(r)
        \/ RemoveSelectionSet(r)
        \/ Receive(r)

Spec == Init /\ [][Next]_vars

----------------------------------------------------------------------------
(* What the replicas know *)

\* the operations handed to replica r through apply_ops so far
Received(r) ==
    UNION {{<<q, k>> : k \in 1..Len(sent[q])} : q \in ReplicaIds \ {r}} \ network[r]

SentOp(p) == sent[p[1]][p[2]].op

ReceivedIds(r) == {op_id(SentOp(p)) : p \in Received(r)}

OwnIds(r) == {op_id(sent[r][k].op) : k \in 1..Len(sent[r])}

\* the operations replica r has generated or been delivered
Known(r) == OwnIds(r) \cup ReceivedIds(r)

Applied(r) == SeqToSet(applied_log[r])

\* every operation received came with everything its author had applied before it
CausallyClosed(r) == \A p \in Received(r) : sent[p[1]][p[2]].seen \subseteq Known(r)

\* the position of an operation in the log of replica r, 0 if it did not take effect
RECURSIVE LogIndex(_, _, _)
LogIndex(log, id, k) ==
    IF k > Len(log) THEN 0 ELSE IF log[k] = id THEN k ELSE LogIndex(log, id, k + 1)

\* C1: two replicas that were delivered the same set of operations, in whatever order
\* and batches, have the same text and the same selection sets
C1_Convergence ==
    \A r, q \in ReplicaIds :
        Known(r) = Known(q) =>
            /\ text(buffers[r]) = text(buffers[q])
            /\ buffers[r].selections = buffers[q].selections

\* C4: on every replica, an operation of replica q takes effect only after all the
\* operations q generated before it
C4_CausalOrder ==
    \A r, q \in ReplicaIds : \A k2 \in 1..Len(sent[q]) : \A k1 \in 1..(k2 - 1) :
        LET i1 == LogIndex(applied_log[r], op_id(sent[q][k1].op), 1)
            i2 == LogIndex(applied_log[r], op_id(sent[q][k2].op), 1)
        IN  i2 # 0 => (i1 # 0 /\ i1 < i2)

\* C5: when what a replica has received is causally closed, its deferred queue is
\* empty and every operation it received has taken effect
C5_DeferredProgress ==
    \A r \in ReplicaIds :
        (Received(r) # {} /\ CausallyClosed(r)) =>
            /\ deferred_ops_len(buffers[r]) = 0
            /\ ReceivedIds(r) \subseteq Applied(r)

\* C6: apply_ops does not fail on the operations of the other replicas, and an
\* operation it was handed has either taken effect or waits in the deferred queue
C6_ApplyNeverFails ==
    \A r \in ReplicaIds :
        /\ apply_result[r] \notin {"Err", "Panic"}
        /\ \A p \in Received(r) :
              \/ op_id(SentOp(p)) \in Applied(r)
              \/ \E k \in 1..Len(buffers[r].deferred_ops) : buffers[r].deferred_ops[k] = SentOp(p)


----------------------------------------------------------------------------
(* An author with its history, and a follower that applies what it returns  *)
(* (test_history, with the clock of start_transaction_at/end_transaction_at) *)

Author == 0
Follower == 1

\* the edits of the author: an insertion at the start, a deletion of the first character
AuthorEditChoices(n) ==
    {<<<<Range(0, 0)>>, TypedText(Author)>>}
    \cup (IF n >= 1 THEN {<<<<Range(0, 1)>>, None>>} ELSE {})

\* the set_id argument of start_transaction and end_transaction: the selection set
\* of the author when it holds one
SetIdChoices ==
    IF OwnSelectionSets(Author) = {} THEN {None}
    ELSE {Some(set_id) : set_id \in OwnSelectionSets(Author)}

\* the ids of the edits a call of Buffer::edit returned
EditIds(ops) == [k \in 1..Len(ops) |-> ops[k].edit.id]

\* the follower has applied everything the author returned
InStep == network[Follower] = {}

\* the steps of the clock between two calls: the group interval, and just more
ClockSteps == {UNDO_GROUP_INTERVAL, UNDO_GROUP_INTERVAL + 1}

\* the characters of the insertions that the text of the buffer shows
VisibleChars(buf) ==
    UNION {{<<buf.fragments[i].insertion.id, k>> :
               k \in (start_offset(buf.fragments[i]) + 1)..end_offset(buf.fragments[i])} :
           i \in {j \in 1..Len(buf.fragments) : buf.fragments[j].visible}}

\* what the observer notes of a selection set at a transaction boundary
Snapshot(buf, set_id) ==
    IF IsSome(set_id) /\ Unwrap(set_id) \in DOMAIN buf.selections
    THEN Some(<<Unwrap(set_id), buf.selections[Unwrap(set_id)]>>)
    ELSE None

\* the observer's entry for a transaction that commits now; `newest` is what it
\* noted at the start of the transaction committed last
Committed(open, buf, selections_after) ==
    [text_before |-> open.text_before, text_after |-> text(buf),
     selections_before |-> open.selections_before, selections_after |-> selections_after,
     first_edit_at |-> open.first_edit_at, last_edit_at |-> now, transactions |-> 1,
     newest |-> [text_before |-> open.text_before,
                 selections_before |-> open.selections_before]]

\* the observer groups by the rule of the interval: a transaction that starts within
\* group_interval of the end of the entry before it becomes part of that entry
Grouped(entries, entry) ==
    IF entries # <<>> /\ entry.first_edit_at - Last(entries).last_edit_at <= UNDO_GROUP_INTERVAL
    THEN Append(SubSeq(entries, 1, Len(entries) - 1),
                [Last(entries) EXCEPT !.text_after = entry.text_after,
                                      !.selections_after = entry.selections_after,
                                      !.last_edit_at = entry.last_edit_at,
                                      !.transactions = @ + 1,
                                      !.newest = entry.newest])
    ELSE Append(entries, entry)

\* the author has opened the buffer and selected everything, and the follower has
\* applied the operation this returned
InitHistory ==
    /\ LET new == BufferNew(Author, BaseText)
           opened(added, applied) ==
               /\ buffers = [r \in ReplicaIds |-> IF r = Author THEN added.buf ELSE applied.buf]
               /\ sent = [r \in ReplicaIds |->
                            IF r = Author THEN <<[op |-> added.ops[1], seen |-> {}]>> ELSE <<>>]
               /\ applied_log = [r \in ReplicaIds |-> op_ids(added.ops)]
           added(res) == opened(res, apply_ops(BufferNew(Follower, BaseText), res.ops))
       IN  added(add_selection_set(new, selections_from_ranges(new, <<Range(0, len(new))>>)))
    /\ network = [r \in ReplicaIds |-> {}]
    /\ mutation_count = MaxCalls
    /\ reference_string = [r \in ReplicaIds |-> BaseText]
    /\ apply_result = [r \in ReplicaIds |-> "Ok"]
    /\ now = 0
    /\ last_action = [kind |-> "new"]
    /\ snapshots = [open |-> <<>>, undo |-> <<>>, redo |-> <<>>]

\* buffer.start_transaction(set_id)
StartTransaction ==
    LET buf == buffers[Author]
        started(set_id, res) ==
            /\ Broadcast(Author, res)
            /\ snapshots' =
                  IF res.err = "Ok" /\ buf.history.transaction_depth = 0
                  THEN [snapshots EXCEPT !.open =
                           Some([text_before |-> text(buf),
                                 selections_before |-> Snapshot(buf, set_id),
                                 first_edit_at |-> now,
                                 stack_len |-> Len(buf.history.undo_stack),
                                 edits |-> <<>>, max_depth |-> 1,
                                 chars_before |-> VisibleChars(buf)])]
                  ELSE IF res.err = "Ok"
                  THEN [snapshots EXCEPT !.open =
                           Some([Unwrap(@) EXCEPT
                                   !.max_depth = Max(@, buf.history.transaction_depth + 1)])]
                  ELSE snapshots
            /\ last_action' = [kind |-> "start_transaction"]
    IN  /\ AllOk /\ InStep /\ mutation_count # 0
        /\ buf.history.transaction_depth < MaxDepth
        /\ \E set_id \in SetIdChoices :
              started(set_id, start_transaction_at(buf, set_id, now))
        /\ mutation_count' = mutation_count - 1
        /\ UNCHANGED <<reference_string, now>>

\* buffer.end_transaction(set_id)
EndTransaction ==
    LET buf == buffers[Author]
        ended(set_id, res, commits) ==
            /\ Broadcast(Author, res)
            /\ snapshots' =
                  IF commits
                  THEN [snapshots EXCEPT
                          !.open = None,
                          !.undo = Grouped(@, Committed(Unwrap(snapshots.open), res.buf,
                                                        Snapshot(buf, set_id)))]
                  ELSE snapshots
            /\ last_action' =
                  IF commits
                  THEN [kind |-> "commit",
                        open_edits |-> Unwrap(snapshots.open).edits,
                        max_depth |-> Unwrap(snapshots.open).max_depth,
                        undo_stack |-> SubSeq(buf.history.undo_stack, 1,
                                              Len(buf.history.undo_stack) - 1),
                        transaction |-> [Last(buf.history.undo_stack) EXCEPT
                                           !.selections_after = Snapshot(buf, set_id),
                                           !.last_edit_at = now]]
                  ELSE [kind |-> "end_transaction"]
        returned(set_id, res) ==
            ended(set_id, res, res.err = "Ok" /\ buf.history.transaction_depth = 1)
    IN  /\ AllOk /\ InStep /\ mutation_count # 0
        /\ \E set_id \in SetIdChoices :
              returned(set_id, end_transaction_at(buf, set_id, now))
        /\ mutation_count' = mutation_count - 1
        /\ UNCHANGED <<reference_string, now>>

\* buffer.edit(old_ranges, new_text), inside a transaction or as one of its own
AuthorEdit ==
    LET buf == buffers[Author]
        edited(c, res, commits) ==
            /\ Broadcast(Author, res)
            /\ reference_string' =
                  [reference_string EXCEPT ![Author] = replace_ranges(text(buf), c[1], c[2])]
            /\ snapshots' =
                  IF commits
                  THEN [snapshots EXCEPT !.undo =
                           Grouped(@, Committed([text_before |-> text(buf),
                                                 selections_before |-> None,
                                                 first_edit_at |-> now],
                                                res.buf, None))]
                  ELSE IF res.err = "Ok"
                  THEN [snapshots EXCEPT !.open =
                           Some([Unwrap(@) EXCEPT !.edits = @ \o EditIds(res.ops)])]
                  ELSE snapshots
            /\ last_action' =
                  IF commits
                  THEN [kind |-> "commit",
                        open_edits |-> EditIds(res.ops),
                        max_depth |-> 1,
                        undo_stack |-> buf.history.undo_stack,
                        transaction |->
                            [start |-> buf.version, buffer_was_dirty |-> is_dirty(buf),
                             edits |-> EditIds(res.ops),
                             selections_before |-> None, selections_after |-> None,
                             first_edit_at |-> now, last_edit_at |-> now]]
                  ELSE [kind |-> "edit"]
        returned(c, res) ==
            edited(c, res, res.err = "Ok" /\ buf.history.transaction_depth = 0)
    IN  /\ AllOk /\ InStep /\ mutation_count # 0
        /\ \E c \in AuthorEditChoices(len(buf)) : returned(c, edit(buf, c[1], c[2], now))
        /\ mutation_count' = mutation_count - 1
        /\ UNCHANGED now

\* what the observer notes of a run of undo() calls followed by redo() calls: the
\* entry this call reverts or restores, the number of calls of each kind, whether
\* every undo() of the run found an entry to revert, whether the run began right
\* after a commit, and the text and the selection sets before the run
RunOf(kind, buf) ==
    IF kind = "undo"
    THEN LET continues == last_action.kind = "undo"
             found == snapshots.undo # <<>>
         IN  [kind |-> "undo",
              after_commit |-> IF continues THEN FALSE ELSE last_action.kind = "commit",
              entry |-> IF found THEN Some(Last(snapshots.undo)) ELSE None,
              undos |-> IF continues THEN last_action.undos + 1 ELSE 1,
              redos |-> 0,
              effective |-> IF continues THEN last_action.effective /\ found ELSE found,
              text |-> IF continues THEN last_action.text ELSE text(buf),
              selections |-> IF continues THEN last_action.selections ELSE buf.selections]
    ELSE LET continues == /\ last_action.kind \in {"undo", "redo"}
                          /\ last_action.redos < last_action.undos
         IN  [kind |-> "redo",
              after_commit |-> FALSE,
              entry |-> IF snapshots.redo # <<>> THEN Some(Last(snapshots.redo)) ELSE None,
              undos |-> IF continues THEN last_action.undos ELSE 0,
              redos |-> IF continues THEN last_action.redos + 1 ELSE 1,
              effective |-> IF continues THEN last_action.effective ELSE FALSE,
              text |-> IF continues THEN last_action.text ELSE text(buf),
              selections |-> IF continues THEN last_action.selections ELSE buf.selections]

\* buffer.undo()
Undo ==
    LET buf == buffers[Author]
        undone(res) ==
            /\ Broadcast(Author, res)
            /\ reference_string' = [reference_string EXCEPT ![Author] = text(res.buf)]
            /\ snapshots' =
                  IF res.err = "Ok" /\ snapshots.undo # <<>>
                  THEN [snapshots EXCEPT
                          !.undo = SubSeq(@, 1, Len(@) - 1),
                          !.redo = Append(@, [Last(snapshots.undo) EXCEPT
                                                !.text_after = text(buf)])]
                  ELSE snapshots
            /\ last_action' = IF res.err = "Ok" THEN RunOf("undo", buf) ELSE [kind |-> "abort"]
    IN  /\ AllOk /\ InStep /\ mutation_count # 0
        /\ undone(undo(buf))
        /\ mutation_count' = mutation_count - 1
        /\ UNCHANGED now

\* buffer.redo()
Redo ==
    LET buf == buffers[Author]
        redone(res) ==
            /\ Broadcast(Author, res)
            /\ reference_string' = [reference_string EXCEPT ![Author] = text(res.buf)]
            /\ snapshots' =
                  IF res.err = "Ok" /\ snapshots.redo # <<>>
                  THEN [snapshots EXCEPT
                          !.redo = SubSeq(@, 1, Len(@) - 1),
                          !.undo = Append(@, [Last(snapshots.redo) EXCEPT
                                                !.text_before = text(buf)])]
                  ELSE snapshots
            /\ last_action' = IF res.err = "Ok" THEN RunOf("redo", buf) ELSE [kind |-> "abort"]
    IN  /\ AllOk /\ InStep /\ mutation_count # 0
        /\ redone(redo(buf))
        /\ mutation_count' = mutation_count - 1
        /\ UNCHANGED now

\* the author holds at most one selection set at a time: it selects everything
AuthorAddSelectionSet ==
    /\ InStep /\ OwnSelectionSets(Author) = {}
    /\ AddSelectionSetOf(Author, {<<Range(0, len(buffers[Author]))>>})

\* the author moves its selection: everything, backwards
AuthorUpdateSelectionSet ==
    /\ InStep
    /\ UpdateSelectionSetOf(Author, {<<Range(len(buffers[Author]), 0)>>})

AuthorRemoveSelectionSet ==
    /\ InStep /\ buffers[Author].history.transaction_depth = 0
    /\ RemoveSelectionSet(Author)

\* Instant::now() moves on before a call
Tick ==
    /\ AllOk /\ mutation_count # 0
    /\ \E d \in ClockSteps : now + d <= MaxClock /\ now' = now + d
    /\ UNCHANGED <<buffers, network, sent, mutation_count, reference_string, applied_log,
                   apply_result, last_action, snapshots>>

\* the follower applies, in the order of their generation, everything the author
\* has returned since its last apply_ops
FollowerApply ==
    LET n == Len(sent[Author])
        first == n - Cardinality(network[Follower]) + 1
        applied(res) ==
            /\ buffers' = [buffers EXCEPT ![Follower] = res.buf]
            /\ apply_result' = [apply_result EXCEPT ![Follower] = res.err]
            /\ applied_log' = [applied_log EXCEPT ![Follower] = @ \o op_ids(res.applied)]
            /\ network' = [network EXCEPT ![Follower] = {}]
            /\ reference_string' = [reference_string EXCEPT ![Follower] = text(res.buf)]
    IN  /\ AllOk /\ network[Follower] # {}
        /\ applied(apply_ops(buffers[Follower],
                             [k \in 1..(n - first + 1) |-> sent[Author][first + k - 1].op]))
        /\ UNCHANGED <<sent, mutation_count, now, last_action, snapshots>>

NextHistory ==
    \/ StartTransaction
    \/ EndTransaction
    \/ AuthorEdit
    \/ Undo
    \/ Redo
    \/ AuthorAddSelectionSet
    \/ AuthorUpdateSelectionSet
    \/ AuthorRemoveSelectionSet
    \/ Tick
    \/ FollowerApply

SpecHistory == InitHistory /\ [][NextHistory]_vars

----------------------------------------------------------------------------
(* The author, its follower and its history *)

\* the selection set a snapshot names holds the selections of the snapshot
Holds(buf, snapshot) ==
    IsSome(snapshot) =>
        /\ Unwrap(snapshot)[1] \in DOMAIN buf.selections
        /\ buf.selections[Unwrap(snapshot)[1]] = Unwrap(snapshot)[2]

\* C7: a follower that has applied every operation the author returned has the text
\* and the selection sets of the author
C7_ReturnedOpsDescribeChange ==
    (AllOk /\ network[Follower] = {}) =>
        /\ text(buffers[Follower]) = text(buffers[Author])
        /\ buffers[Follower].selections = buffers[Author].selections

GroupedStack(undo_stack, transaction) ==
    LET n == Len(undo_stack)
    IN  IF n >= 1 /\ transaction.first_edit_at - undo_stack[n].last_edit_at
                        <= UNDO_GROUP_INTERVAL
        THEN Append(SubSeq(undo_stack, 1, n - 1),
                    [undo_stack[n] EXCEPT !.edits = @ \o transaction.edits,
                                          !.selections_after = transaction.selections_after,
                                          !.last_edit_at = transaction.last_edit_at])
        ELSE Append(undo_stack, transaction)

\* C10: the transaction an outermost end_transaction commits is merged into the entry
\* before it iff it started within group_interval of the end of that entry (edits
\* concatenated, selections_after and last_edit_at of the newer), and otherwise is an
\* entry of its own; so one undo() reverts a whole run of transactions that follow
\* each other within the interval, and only that run
C10_Grouping ==
    /\ last_action.kind = "commit"
       => buffers[Author].history.undo_stack
              = GroupedStack(last_action.undo_stack, last_action.transaction)
    /\ (last_action.kind = "undo" /\ IsSome(last_action.entry))
       => text(buffers[Author]) = Unwrap(last_action.entry).text_before

\* a transaction with an edit has just been committed exactly group_interval after
\* the end of the entry before it, and is now part of that entry
C10_Witness ==
    /\ last_action.kind = "commit"
    /\ last_action.undo_stack # <<>>
    /\ last_action.transaction.edits # <<>>
    /\ last_action.transaction.first_edit_at - Last(last_action.undo_stack).last_edit_at
          = UNDO_GROUP_INTERVAL
    /\ Len(buffers[Author].history.undo_stack) = Len(last_action.undo_stack)

\* C11: while a transaction is open, whatever the depth, the undo stack holds one
\* entry more than at the outermost start_transaction and that entry holds every edit
\* made since; the outermost end_transaction commits exactly these edits as one
\* transaction; and one undo() undoes every edit of the newest entry
C11_NestedTransactions ==
    /\ buffers[Author].history.transaction_depth >= 1
       => /\ IsSome(snapshots.open)
          /\ Len(buffers[Author].history.undo_stack) = Unwrap(snapshots.open).stack_len + 1
          /\ Last(buffers[Author].history.undo_stack).edits = Unwrap(snapshots.open).edits
    /\ last_action.kind = "commit"
       => last_action.transaction.edits = last_action.open_edits
    /\ (/\ AllOk /\ buffers[Author].history.transaction_depth = 0
        /\ buffers[Author].history.undo_stack # <<>>)
       => \A k \in 1..Len(Last(buffers[Author].history.undo_stack).edits) :
             LET edit_id == Last(buffers[Author].history.undo_stack).edits[k]
             IN  /\ ~is_undone(buffers[Author].undo_map, edit_id)
                 /\ is_undone(undo(buffers[Author]).buf.undo_map, edit_id)

\* the outermost end_transaction has just committed a transaction in which
\* start_transaction was called again, with an edit made inside
C11_Witness ==
    /\ last_action.kind = "commit"
    /\ last_action.max_depth = 2
    /\ Len(last_action.open_edits) = 1
    /\ buffers[Author].history.transaction_depth = 0
    /\ Last(buffers[Author].history.undo_stack).edits = last_action.open_edits

\* C12: once a transaction with an edit has been committed, the redo stack is empty
\* and redo() returns no operation and leaves the buffer as it is
C12_RedoClearedByEdit ==
    (/\ AllOk /\ last_action.kind = "commit" /\ last_action.open_edits # <<>>)
       => /\ buffers[Author].history.redo_stack = <<>>
          /\ redo(buffers[Author]) = Result(buffers[Author], <<>>, "Ok")

----------------------------------------------------------------------------
(* The buffer and the buffer_versions of test_random_edits *)

\* the clones test_random_edits keeps in buffer_versions
MaxVersions == 1

\* the reference strings the test starts from: reference_string_len is 0, 1 or 2
BaseTexts == {SubSeq(BaseText, 1, n) : n \in 0..Len(BaseText)}

\* what the second half of randomly_mutate may do to the selection sets of buf
SelectionSetChoices(buf) ==
    {<<"add", None>>}
    \cup {<<kind, Some(set_id)>> : kind \in {"remove", "update"},
                                   set_id \in {id \in DOMAIN buf.selections :
                                                  id.replica_id = buf.replica_id}}

\* the second half of randomly_mutate: remove, add or update a selection set; the
\* operations of the edit (res.ops) come first in the returned operations
mutate_selections(res, choice, ranges) ==
    LET pushed(r) == Result(r.buf, res.ops \o r.ops, r.err)
    IN  IF res.err # "Ok" THEN res
        ELSE IF choice[1] = "remove"
        THEN pushed(remove_selection_set(res.buf, Unwrap(choice[2])))
        ELSE IF choice[1] = "add"
        THEN pushed(add_selection_set(res.buf, selections_from_ranges(res.buf, ranges)))
        ELSE pushed(update_selection_set(res.buf, Unwrap(choice[2]),
                                         selections_from_ranges(res.buf, ranges)))

InitRandomEdits ==
    /\ \E base \in BaseTexts :
          /\ buffers = [r \in {Author} |-> BufferNew(Author, base)]
          /\ reference_string = [r \in {Author} |-> base]
    /\ network = [r \in ReplicaIds |-> {}]
    /\ sent = [r \in ReplicaIds |-> <<>>]
    /\ mutation_count = MaxMutations
    /\ applied_log = [r \in ReplicaIds |-> <<>>]
    /\ apply_result = [r \in ReplicaIds |-> "Ok"]
    /\ now = 0
    /\ last_action = [kind |-> "new"]
    /\ snapshots = [buffer_versions |-> <<>>]

\* buffer.randomly_mutate(rng, None) and the update of reference_string after it
RandomlyMutate ==
    LET mutated(c, res) ==
            /\ buffers' = [buffers EXCEPT ![Author] = res.buf]
            /\ apply_result' = [apply_result EXCEPT
                                  ![Author] = IF res.err = "Ok" THEN "Ok" ELSE "LocalFailure"]
            /\ reference_string' =
                  [reference_string EXCEPT ![Author] = replace_ranges(@, c[1], c[2])]
        edited(c, res) ==
            \E choice \in SelectionSetChoices(res.buf),
               ranges \in SelectionChoices(len(res.buf)) :
                mutated(c, mutate_selections(res, choice, ranges))
    IN  /\ apply_result[Author] = "Ok" /\ mutation_count # 0
        /\ \E c \in EditChoices(Author, len(buffers[Author])) :
              edited(c, edit(buffers[Author], c[1], c[2], now))
        /\ mutation_count' = mutation_count - 1
        /\ last_action' = [kind |-> "mutate"]
        /\ UNCHANGED <<network, sent, applied_log, now, snapshots>>

\* if rng.gen_bool(0.25) { buffer.randomly_undo_redo(rng); reference_string = buffer.text(); }
RandomlyUndoRedo ==
    LET undone(res) ==
            /\ buffers' = [buffers EXCEPT ![Author] = res.buf]
            /\ apply_result' = [apply_result EXCEPT ![Author] = res.err]
            /\ reference_string' = [reference_string EXCEPT ![Author] = text(res.buf)]
    IN  /\ apply_result[Author] = "Ok" /\ last_action.kind = "mutate"
        /\ \E edit_ids \in SeqsUpTo(DOMAIN buffers[Author].history.ops, MaxUndoRedo) :
              undone(undo_redo_each(Result(buffers[Author], <<>>, "Ok"), edit_ids))
        /\ last_action' = [kind |-> "undo_redo"]
        /\ UNCHANGED <<network, sent, mutation_count, applied_log, now, snapshots>>

\* if rng.gen_bool(0.3) { buffer_versions.push(buffer.clone()); }
PushVersion ==
    /\ apply_result[Author] = "Ok" /\ last_action.kind \in {"mutate", "undo_redo"}
    /\ Len(snapshots.buffer_versions) < MaxVersions
    /\ snapshots' = [snapshots EXCEPT !.buffer_versions = Append(@, buffers[Author])]
    /\ last_action' = [kind |-> "push"]
    /\ UNCHANGED <<buffers, network, sent, mutation_count, reference_string, applied_log,
                   apply_result, now>>

NextRandomEdits ==
    \/ RandomlyMutate
    \/ RandomlyUndoRedo
    \/ PushVersion

SpecRandomEdits == InitRandomEdits /\ [][NextRandomEdits]_vars

RECURSIVE replay_edits(_, _, _, _, _)
\* for Edit { old_range, new_range } in buffer.edits_since(old_buffer.version.clone())
\* { old_buffer.edit(Some(old_start..old_start + old_len), new_text, None).unwrap(); .. }
replay_edits(buffer, res, edits, delta, at) ==
    IF edits = <<>> \/ res.err # "Ok" THEN res
    ELSE LET old_range == Head(edits).old_range
             new_range == Head(edits).new_range
             old_len == old_range.end - old_range.start
             new_len == new_range.end - new_range.start
             old_start == old_range.start + delta
             new_text == SubSeq(text(buffer), new_range.start + 1, new_range.end)
         IN  replay_edits(buffer,
                          edit(res.buf, <<Range(old_start, old_start + old_len)>>, new_text, at),
                          Tail(edits), delta + new_len - old_len, at)

\* the Edit records lie in ascending order and do not overlap, in the old text and
\* in the new one
AscendingEdits(edits) ==
    /\ \A k \in 1..Len(edits) :
          /\ edits[k].old_range.start <= edits[k].old_range.end
          /\ edits[k].new_range.start <= edits[k].new_range.end
    /\ \A k \in 1..(Len(edits) - 1) :
          /\ edits[k].old_range.end <= edits[k + 1].old_range.start
          /\ edits[k].new_range.end <= edits[k + 1].new_range.start

\* C15: for every clone kept in buffer_versions, the Edit records of
\* edits_since(clone.version) are ascending and do not overlap, and replaying them
\* in order on the clone (old_range shifted by the accumulated delta, replaced with
\* the current text of new_range) succeeds and gives the clone the current text
C15_EditsSinceRoundTrip ==
    apply_result[Author] = "Ok"
    => /\ text(buffers[Author]) = reference_string[Author]
       /\ \A k \in 1..Len(snapshots.buffer_versions) :
             /\ AscendingEdits(edits_since(buffers[Author],
                                           snapshots.buffer_versions[k].version))
             /\ replay_edits(buffers[Author],
                             Result(snapshots.buffer_versions[k], <<>>, "Ok"),
                             edits_since(buffers[Author],
                                         snapshots.buffer_versions[k].version),
                             0, now).err = "Ok"
             /\ text(replay_edits(buffers[Author],
                                  Result(snapshots.buffer_versions[k], <<>>, "Ok"),
                                  edits_since(buffers[Author],
                                              snapshots.buffer_versions[k].version),
                                  0, now).buf) = text(buffers[Author])

\* a clone was taken after an edit, and an insertion at both ends and an
\* undo_or_redo later edits_since yields two records for a text that has changed
C15_Witness ==
    /\ apply_result[Author] = "Ok"
    /\ \E k \in 1..Len(snapshots.buffer_versions) :
          /\ snapshots.buffer_versions[k].version # GlobalNew
          /\ Len(edits_since(buffers[Author], snapshots.buffer_versions[k].version)) >= 2
          /\ text(snapshots.buffer_versions[k]) # text(buffers[Author])
          /\ DOMAIN buffers[Author].undo_map # DOMAIN snapshots.buffer_versions[k].undo_map

----------------------------------------------------------------------------
(* The failures of the local calls *)

\* old_ranges that are not valid for a buffer of length n: an endpoint beyond the
\* end, two ranges that overlap, two ranges in descending order
InvalidRangeChoices(n) ==
    {<<Range(n + 1, n + 1)>>, <<Range(0, n + 1)>>}
    \cup (IF n >= 1 THEN {<<Range(0, n), Range(n - 1, n)>>, <<Range(n, n), Range(0, 0)>>}
          ELSE {})

\* C16: edit with a range endpoint beyond the length of the buffer, or with ranges
\* that overlap or are not ascending, returns an error and no operations, and the
\* text stays as it was
C16_InvalidRangesFail ==
    apply_result[Author] = "Ok"
    => \A old_ranges \in InvalidRangeChoices(len(buffers[Author])) :
          /\ edit(buffers[Author], old_ranges, TypedText(Author), now).err = "Err"
          /\ edit(buffers[Author], old_ranges, TypedText(Author), now).ops = <<>>
          /\ text(edit(buffers[Author], old_ranges, TypedText(Author), now).buf)
                = text(buffers[Author])

\* the anchors a buffer hands out: before and after every offset of its text
AnchorsOf(buf) ==
    {anchor_at(buf, offset, bias) : offset \in 0..len(buf), bias \in {"Left", "Right"}}

\* C17: a local call that returns an error leaves the buffer as it was: the edit of a
\* range between anchors the buffer cannot resolve (anchors of another replica), and
\* start_transaction, end_transaction and remove_selection_set with the id of a
\* selection set the buffer does not hold
C17_FailureAtomicity ==
    AllOk
    => \A r \in ReplicaIds, q \in ReplicaIds :
          /\ \A a \in AnchorsOf(buffers[q]) :
                edit_anchors(buffers[r], <<Range(a, a)>>, TypedText(r), now).err = "Err"
                => edit_anchors(buffers[r], <<Range(a, a)>>, TypedText(r), now).buf
                     = buffers[r]
          /\ \A set_id \in DOMAIN buffers[q].selections \ DOMAIN buffers[r].selections :
                /\ start_transaction_at(buffers[r], Some(set_id), now)
                     = Result(buffers[r], <<>>, "Err")
                /\ end_transaction_at(buffers[r], Some(set_id), now)
                     = Result(buffers[r], <<>>, "Err")
                /\ remove_selection_set(buffers[r], set_id) = Result(buffers[r], <<>>, "Err")

\* C18: end_transaction with no transaction open returns an error to its caller and
\* leaves the buffer as it was, and the transaction depth is never below zero
C18_EndWithoutStart ==
    /\ buffers[Author].history.transaction_depth >= 0
    /\ (apply_result[Author] = "Ok" /\ buffers[Author].history.transaction_depth = 0)
       => end_transaction_at(buffers[Author], None, now)
            = Result(buffers[Author], <<>>, "Err")

\* Buffer::selections: [ok, selections]
selections(buf, set_id) ==
    IF set_id \in DOMAIN buf.selections
    THEN [ok |-> TRUE, selections |-> buf.selections[set_id]]
    ELSE [ok |-> FALSE, selections |-> <<>>]

\* ids of selection sets the buffer does not hold: the Lamport timestamps up to its
\* clock, of either replica, that name none of its sets
UnknownSetIds(buf) ==
    {[value |-> v, replica_id |-> r] : v \in 1..buf.lamport_clock.value, r \in ReplicaIds}
    \ DOMAIN buf.selections

\* C19: with the id of a selection set the buffer does not hold, selections,
\* remove_selection_set, start_transaction, end_transaction and update_selection_set
\* return an error, and the buffer (its selection sets with it) stays as it was
C19_UnknownSelectionSet ==
    apply_result[Author] = "Ok"
    => \A set_id \in UnknownSetIds(buffers[Author]) :
          /\ ~selections(buffers[Author], set_id).ok
          /\ remove_selection_set(buffers[Author], set_id)
               = Result(buffers[Author], <<>>, "Err")
          /\ start_transaction_at(buffers[Author], Some(set_id), now)
               = Result(buffers[Author], <<>>, "Err")
          /\ end_transaction_at(buffers[Author], Some(set_id), now)
               = Result(buffers[Author], <<>>, "Err")
          /\ \A ranges \in SelectionChoices(len(buffers[Author])) :
                update_selection_set(buffers[Author], set_id,
                                     selections_from_ranges(buffers[Author], ranges))
                  = Result(buffers[Author], <<>>, "Err")

----------------------------------------------------------------------------
(* Anchors at the start and at the end *)

\* C20: anchor_before(0) is Start and anchor_after(len) is End, in the empty buffer
\* too; Start resolves to offset 0 and End to the length of the buffer; and the two
\* anchors taken in a clone kept earlier resolve to 0 and to the length of the buffer
\* as it is now
C20_StartAndEndAnchors ==
    apply_result[Author] = "Ok"
    => /\ anchor_before(buffers[Author], 0) = AnchorStart
       /\ anchor_after(buffers[Author], len(buffers[Author])) = AnchorEnd
       /\ anchor_to_offset(buffers[Author], AnchorStart) = [ok |-> TRUE, offset |-> 0]
       /\ anchor_to_offset(buffers[Author], AnchorEnd)
            = [ok |-> TRUE, offset |-> len(buffers[Author])]
       /\ \A k \in 1..Len(snapshots.buffer_versions) :
             /\ anchor_to_offset(buffers[Author],
                                 anchor_before(snapshots.buffer_versions[k], 0))
                  = [ok |-> TRUE, offset |-> 0]
             /\ anchor_to_offset(buffers[Author],
                                 anchor_after(snapshots.buffer_versions[k],
                                              len(snapshots.buffer_versions[k])))
                  = [ok |-> TRUE, offset |-> len(buffers[Author])]

\* the buffer started empty and has grown to two characters or more since the clone
\* was taken, with an insertion at the start and one at the end among its edits
C20_Witness ==
    /\ apply_result[Author] = "Ok"
    /\ buffers[Author].history.base_text = <<>>
    /\ len(buffers[Author]) >= 2
    /\ \E k \in 1..Len(snapshots.buffer_versions) :
          /\ len(snapshots.buffer_versions[k]) = 1
          /\ Len(edits_since(buffers[Author], snapshots.buffer_versions[k].version)) = 2
          /\ anchor_to_offset(buffers[Author],
                              anchor_after(snapshots.buffer_versions[k], 1)).offset
               = len(buffers[Author])

----------------------------------------------------------------------------
(* Anchors and the edits after them *)

\* the buffers anchors are taken in: the clones kept earlier and the buffer as it is
AnchoredBuffers == {buffers[Author]} \cup SeqToSet(snapshots.buffer_versions)

\* how far an anchor moves in buf when TypedText is inserted at the very offset it
\* resolves to
moved_by_insert(buf, anchor) ==
    LET at_offset(p) ==
            anchor_to_offset(edit(buf, <<Range(p, p)>>, TypedText(Author), now).buf,
                             anchor).offset - p
    IN  at_offset(anchor_to_offset(buf, anchor).offset)

\* C21: for the anchors taken before and after every offset of an earlier state of
\* the buffer, the left-biased one never resolves after the right-biased one, and
\* when text is inserted at the offset an anchor resolves to, the left-biased anchor
\* keeps its offset and the right-biased one moves by the length of the insertion
C21_AnchorBias ==
    apply_result[Author] = "Ok"
    => \A old \in AnchoredBuffers :
          \A offset \in 0..len(old) :
              /\ anchor_to_offset(buffers[Author], anchor_before(old, offset)).ok
              /\ anchor_to_offset(buffers[Author], anchor_after(old, offset)).ok
              /\ anchor_to_offset(buffers[Author], anchor_before(old, offset)).offset
                   <= anchor_to_offset(buffers[Author], anchor_after(old, offset)).offset
              /\ moved_by_insert(buffers[Author], anchor_before(old, offset)) = 0
              /\ moved_by_insert(buffers[Author], anchor_after(old, offset))
                   = Len(TypedText(Author))

----------------------------------------------------------------------------
(* test_anchors: two anchors at one offset, and the edits of two replicas after them *)

\* the edits of one range a replica makes in a text of length n: an insertion at any
\* offset, the deletion or the replacement of any one character
AnchoredEditChoices(r, n) ==
    {<<<<Range(i, i)>>, TypedText(r)>> : i \in 0..n}
    \cup {<<<<Range(i, i + 1)>>, t>> : i \in 0..(n - 1), t \in {None, TypedText(r)}}

\* the edit c neither deletes the character before offset p nor inserts at p
Beside(c, p) ==
    \/ c[1][1].end < p
    \/ c[1][1].start > p
    \/ c[1][1].start = p /\ c[2] = None

\* the bytes c inserts, less those it deletes, to the left of offset p
DeltaLeft(c, p) ==
    IF c[1][1].end < p THEN Len(c[2]) - (c[1][1].end - c[1][1].start) ELSE 0

InitAnchors ==
    /\ \E base \in BaseTexts :
          /\ buffers = [r \in ReplicaIds |-> BufferNew(r, base)]
          /\ reference_string = [r \in ReplicaIds |-> base]
    /\ network = [r \in ReplicaIds |-> {}]
    /\ sent = [r \in ReplicaIds |-> <<>>]
    /\ mutation_count = MaxMutations
    /\ applied_log = [r \in ReplicaIds |-> <<>>]
    /\ apply_result = [r \in ReplicaIds |-> "Ok"]
    /\ now = 0
    /\ last_action = [kind |-> "new"]
    /\ snapshots = [anchored |-> None]

\* let left_anchor = buffer.anchor_before(offset); let right_anchor =
\* buffer.anchor_after(offset), in the buffer of the author
TakeAnchors ==
    /\ AllOk /\ ~IsSome(snapshots.anchored)
    /\ \E offset \in 0..len(buffers[Author]) :
          snapshots' = [anchored |-> Some([left_anchor |-> anchor_before(buffers[Author], offset),
                                          right_anchor |-> anchor_after(buffers[Author], offset),
                                          offset |-> offset, beside |-> TRUE])]
    /\ last_action' = [kind |-> "anchors"]
    /\ UNCHANGED <<buffers, network, sent, mutation_count, reference_string, applied_log,
                   apply_result, now>>

\* replica r calls buffer.edit(old_ranges, new_text) and the other replica applies
\* the operations it returns; the offset the left anchor is expected at moves by
\* what the edit inserted and deleted to its left
AnchoredEdit(r) ==
    LET applied(c, e, a) ==
            /\ buffers' = [q \in ReplicaIds |-> IF q = r THEN e.buf ELSE a.buf]
            /\ apply_result' = [q \in ReplicaIds |-> IF q = r THEN e.err ELSE a.err]
            /\ reference_string' =
                  [q \in ReplicaIds |-> replace_ranges(reference_string[q], c[1], c[2])]
            /\ snapshots' =
                  IF IsSome(snapshots.anchored)
                  THEN [anchored |-> Some([Unwrap(snapshots.anchored) EXCEPT
                          !.offset = @ + (IF Beside(c, @) THEN DeltaLeft(c, @) ELSE 0),
                          !.beside = @ /\ Beside(c, Unwrap(snapshots.anchored).offset)])]
                  ELSE snapshots
            /\ last_action' = [kind |-> IF r = Author THEN "edit" ELSE "remote",
                               beside |-> IsSome(snapshots.anchored)
                                          /\ Beside(c, Unwrap(snapshots.anchored).offset),
                               delta |-> IF IsSome(snapshots.anchored)
                                         THEN DeltaLeft(c, Unwrap(snapshots.anchored).offset)
                                         ELSE 0]
        edited(c, e) == applied(c, e, apply_ops(buffers[1 - r], e.ops))
    IN  /\ AllOk /\ mutation_count # 0
        /\ \E c \in AnchoredEditChoices(r, len(buffers[r])) :
              edited(c, edit(buffers[r], c[1], c[2], now))
        /\ mutation_count' = mutation_count - 1
        /\ UNCHANGED <<network, sent, applied_log, now>>

NextAnchors ==
    \/ TakeAnchors
    \/ \E r \in ReplicaIds : AnchoredEdit(r)

SpecAnchors == InitAnchors /\ [][NextAnchors]_vars

\* test_anchors, up to the deletion of 2..3: the offsets of the two anchors after each
\* of the two edits
test_anchors ==
    LET b0 == edit(BufferNew(0, <<>>), <<Range(0, 0)>>, <<"a", "b", "c">>, 0).buf
        left_anchor == anchor_before(b0, 2)
        right_anchor == anchor_after(b0, 2)
        b1 == edit(b0, <<Range(1, 1)>>, <<"d", "e", "f", "\n">>, 0).buf
        b2 == edit(b1, <<Range(2, 3)>>, None, 0).buf
    IN  <<text(b1), anchor_to_offset(b1, left_anchor).offset,
          anchor_to_offset(b1, right_anchor).offset,
          text(b2), anchor_to_offset(b2, left_anchor).offset,
          anchor_to_offset(b2, right_anchor).offset>>

\* C22: as long as no edit, of the author or of the other replica, has deleted the
\* character before the left-biased anchor or inserted at the offset it resolved to,
\* the anchor resolves to the offset it was taken at plus the bytes inserted, less
\* those deleted, to its left; in "abc" the anchors at 2 resolve to 6 after "def\n"
\* is inserted at 1 and to 5 after 2..3 is deleted
C22_AnchorStability ==
    /\ (AllOk /\ IsSome(snapshots.anchored) /\ Unwrap(snapshots.anchored).beside)
       => /\ text(buffers[Author]) = reference_string[Author]
          /\ anchor_to_offset(buffers[Author], Unwrap(snapshots.anchored).left_anchor)
               = [ok |-> TRUE, offset |-> Unwrap(snapshots.anchored).offset]
    /\ test_anchors = << <<"a", "d", "e", "f", "\n", "b", "c">>, 6, 6,
                         <<"a", "d", "f", "\n", "b", "c">>, 5, 5 >>

\* the anchors were taken in the middle of the text; since then the author has
\* inserted to their left and the other replica has deleted there, and nothing has
\* touched the anchored position
C22_Witness ==
    /\ AllOk /\ IsSome(snapshots.anchored) /\ Unwrap(snapshots.anchored).beside
    /\ Unwrap(snapshots.anchored).left_anchor.kind = "Middle"
    /\ last_action.kind = "remote" /\ last_action.delta = -1
    /\ \E id \in DOMAIN buffers[Author].history.ops :
          /\ id.replica_id = Author
          /\ buffers[Author].history.ops[id].new_text # None
    /\ mutation_count = 0

----------------------------------------------------------------------------
(* The events of the calls *)

\* the number of Edited events among the events of a call
Edited(events) == Cardinality({k \in 1..Len(events) : events[k] = "Edited"})

\* 1 if the texts of two buffers show different characters, 0 if they show the same
Differs(chars, buf) == IF chars # VisibleChars(buf) THEN 1 ELSE 0

\* the operations the follower has not applied yet
Pending ==
    [k \in 1..Cardinality(network[Follower]) |->
        sent[Author][Len(sent[Author]) - Cardinality(network[Follower]) + k].op]

\* test_edit_events: the events of buffer1 and of buffer2
test_edit_events ==
    LET buffer1 == BufferNew(0, <<"a", "b", "c", "d", "e", "f">>)
        buffer2 == BufferNew(1, <<"a", "b", "c", "d", "e", "f">>)
        xyz == <<"X", "Y", "Z">>
        e1 == edit(buffer1, <<Range(2, 4)>>, xyz, 0)
        s2 == start_transaction_at(e1.buf, None, 0)
        t2 == end_transaction_at(s2.buf, None, 0)
        s3 == start_transaction_at(t2.buf, None, 1000)
        e3 == edit(s3.buf, <<Range(5, 5)>>, <<"u">>, 1000)
        e4 == edit(e3.buf, <<Range(6, 6)>>, <<"w">>, 1000)
        t4 == end_transaction_at(e4.buf, None, 1000)
        u5 == undo(t4.buf)
    IN  <<edit_events(buffer1, <<Range(2, 4)>>, xyz, 0)
            \o end_transaction_events(s2.buf, None, 0)
            \o edit_events(s3.buf, <<Range(5, 5)>>, <<"u">>, 1000)
            \o edit_events(e3.buf, <<Range(6, 6)>>, <<"w">>, 1000)
            \o end_transaction_events(e4.buf, None, 1000)
            \o undo_events(t4.buf),
          apply_ops_events(buffer2, e1.ops \o e3.ops \o e4.ops \o u5.ops)>>

\* C23: a call emits one Edited event when it ends the outermost transaction, applies
\* a batch of remote operations or is an undo() or a redo(), and the text shows
\* other characters than at its start; it emits none when the text shows the same
\* characters, and none inside a transaction
C23_EditedOncePerChange ==
    /\ (AllOk /\ buffers[Author].history.transaction_depth = 0)
       => /\ \A c \in AuthorEditChoices(len(buffers[Author])) :
                Edited(edit_events(buffers[Author], c[1], c[2], now))
                  = Differs(VisibleChars(buffers[Author]),
                            edit(buffers[Author], c[1], c[2], now).buf)
          /\ Edited(undo_events(buffers[Author]))
               = Differs(VisibleChars(buffers[Author]), undo(buffers[Author]).buf)
          /\ Edited(redo_events(buffers[Author]))
               = Differs(VisibleChars(buffers[Author]), redo(buffers[Author]).buf)
    /\ (AllOk /\ buffers[Author].history.transaction_depth >= 1)
       => /\ \A c \in AuthorEditChoices(len(buffers[Author])) :
                edit_events(buffers[Author], c[1], c[2], now) = <<>>
          /\ \A set_id \in SetIdChoices \cup {None} :
                Edited(end_transaction_events(buffers[Author], set_id, now))
                  = IF buffers[Author].history.transaction_depth = 1
                    THEN Differs(Unwrap(snapshots.open).chars_before, buffers[Author])
                    ELSE 0
    /\ (AllOk /\ network[Follower] # {})
       => Edited(apply_ops_events(buffers[Follower], Pending))
            = Differs(VisibleChars(buffers[Follower]),
                      apply_ops(buffers[Follower], Pending).buf)
    /\ test_edit_events = << <<"Edited", "Dirtied", "Edited", "Edited">>,
                             <<"Edited", "Dirtied">> >>

\* the outermost transaction of the author is open with an insertion and the deletion
\* of what it inserted in it: its end emits nothing; the follower is about to apply
\* the second of the two operations, which changes its text
C23_Witness ==
    /\ AllOk
    /\ buffers[Author].history.transaction_depth = 1
    /\ Len(Unwrap(snapshots.open).edits) = 2
    /\ Unwrap(snapshots.open).chars_before = VisibleChars(buffers[Author])
    /\ end_transaction_events(buffers[Author], None, now) = <<>>
    /\ Len(Pending) = 1
    /\ Edited(apply_ops_events(buffers[Follower], Pending)) = 1

----------------------------------------------------------------------------
(* test_is_dirty: a buffer bound to a file, its saves and the deletion of the file *)

\* the edits of the other replica: an insertion at the end
PeerEditChoices(n) == {<<<<Range(n, n)>>, TypedText(Follower)>>}

\* Buffer::from_history(0, History::new(..), Some(file), ctx), and a replica of it
InitFile ==
    /\ buffers = [r \in ReplicaIds |->
                    IF r = Author THEN [BufferNew(r, BaseText) EXCEPT !.file = "File"]
                    ELSE BufferNew(r, BaseText)]
    /\ reference_string = [r \in ReplicaIds |-> BaseText]
    /\ network = [r \in ReplicaIds |-> {}]
    /\ sent = [r \in ReplicaIds |-> <<>>]
    /\ mutation_count = MaxCalls
    /\ applied_log = [r \in ReplicaIds |-> <<>>]
    /\ apply_result = [r \in ReplicaIds |-> "Ok"]
    /\ now = 0
    /\ last_action = [kind |-> "new", events |-> <<>>, was_dirty |-> FALSE, outermost |-> FALSE]
    /\ snapshots = [saving |-> None, unsaved |-> 0, open_dirty |-> FALSE, open_disturbed |-> FALSE]

\* the bookkeeping of a call of the author that returned res and emitted events: the
\* other replica applies the operations, and the observer counts them as not saved
FileCall(kind, res, events) ==
    /\ buffers' = [r \in ReplicaIds |->
                     IF r = Author THEN res.buf ELSE apply_ops(buffers[r], res.ops).buf]
    /\ apply_result' = [r \in ReplicaIds |->
                          IF r = Author THEN res.err ELSE apply_ops(buffers[r], res.ops).err]
    /\ reference_string' = [r \in ReplicaIds |-> text(res.buf)]
    /\ last_action' =
          [kind |-> kind, events |-> events,
           was_dirty |-> IF kind = "end_transaction" THEN snapshots.open_dirty
                         ELSE is_dirty(buffers[Author]),
           outermost |-> buffers[Author].history.transaction_depth
                           = (IF kind = "end_transaction" THEN 1 ELSE 0)]
    /\ snapshots' =
          [snapshots EXCEPT
             !.unsaved = @ + Len(res.ops),
             !.saving = IF IsSome(@) THEN Some([Unwrap(@) EXCEPT !.ops_since = @ + Len(res.ops)])
                        ELSE @,
             !.open_dirty = IF kind = "start_transaction"
                               /\ buffers[Author].history.transaction_depth = 0
                            THEN is_dirty(buffers[Author]) ELSE @,
             !.open_disturbed = IF kind = "start_transaction"
                                   /\ buffers[Author].history.transaction_depth = 0
                                THEN FALSE ELSE @]
    /\ mutation_count' = mutation_count - 1
    /\ UNCHANGED <<network, sent, applied_log, now>>

\* buffer.edit(old_ranges, new_text, Some(ctx))
FileEdit ==
    /\ AllOk /\ mutation_count # 0
    /\ \E c \in AuthorEditChoices(len(buffers[Author])) :
          FileCall("edit", edit(buffers[Author], c[1], c[2], now),
                   edit_events(buffers[Author], c[1], c[2], now))

\* buffer.start_transaction(None)
FileStartTransaction ==
    /\ AllOk /\ mutation_count # 0
    /\ buffers[Author].history.transaction_depth < MaxDepth
    /\ FileCall("start_transaction", start_transaction_at(buffers[Author], None, now), <<>>)

\* buffer.end_transaction(None, Some(ctx))
FileEndTransaction ==
    /\ AllOk /\ mutation_count # 0
    /\ buffers[Author].history.transaction_depth > 0
    /\ FileCall("end_transaction", end_transaction_at(buffers[Author], None, now),
                end_transaction_events(buffers[Author], None, now))

\* buffer.undo(Some(ctx))
FileUndo ==
    /\ AllOk /\ mutation_count # 0
    /\ buffers[Author].history.transaction_depth = 0
    /\ FileCall("undo", undo(buffers[Author]), undo_events(buffers[Author]))

\* buffer.redo(Some(ctx))
FileRedo ==
    /\ AllOk /\ mutation_count # 0
    /\ buffers[Author].history.transaction_depth = 0
    /\ FileCall("redo", redo(buffers[Author]), redo_events(buffers[Author]))

\* the other replica edits, and the author calls buffer.apply_ops(ops, Some(ctx))
FileApplyOps ==
    LET applied(e, a) ==
            /\ buffers' = [r \in ReplicaIds |-> IF r = Author THEN a.buf ELSE e.buf]
            /\ apply_result' = [r \in ReplicaIds |-> IF r = Author THEN a.err ELSE e.err]
            /\ reference_string' = [r \in ReplicaIds |-> text(a.buf)]
            /\ last_action' =
                  [kind |-> "apply_ops",
                   events |-> apply_ops_events(buffers[Author], e.ops),
                   was_dirty |-> is_dirty(buffers[Author]), outermost |-> TRUE]
            /\ snapshots' =
                  [snapshots EXCEPT
                     !.unsaved = @ + Len(e.ops),
                     !.saving = IF IsSome(@)
                                THEN Some([Unwrap(@) EXCEPT !.ops_since = @ + Len(e.ops)])
                                ELSE @]
        edited(e) == applied(e, apply_ops(buffers[Author], e.ops))
    IN  /\ AllOk /\ mutation_count # 0
        /\ \E c \in PeerEditChoices(len(buffers[Follower])) :
              edited(edit(buffers[Follower], c[1], c[2], now))
        /\ mutation_count' = mutation_count - 1
        /\ UNCHANGED <<network, sent, applied_log, now>>

\* buffer.save(None, ctx): the task holds the version of the buffer
Save ==
    /\ AllOk /\ mutation_count # 0
    /\ ~IsSome(snapshots.saving)
    /\ snapshots' = [snapshots EXCEPT
                       !.saving = Some([version |-> save(buffers[Author]), ops_since |-> 0])]
    /\ last_action' = [kind |-> "save", events |-> <<>>,
                       was_dirty |-> is_dirty(buffers[Author]), outermost |-> FALSE]
    /\ mutation_count' = mutation_count - 1
    /\ UNCHANGED <<buffers, network, sent, reference_string, applied_log, apply_result, now>>

\* the file is written and the task calls me.did_save(version, new_file, ctx)
DidSave ==
    LET saved(d) ==
            /\ buffers' = [buffers EXCEPT ![Author] = d.buf]
            /\ last_action' = [kind |-> "did_save", events |-> d.events,
                               was_dirty |-> is_dirty(buffers[Author]), outermost |-> FALSE,
                               version |-> Unwrap(snapshots.saving).version]
    IN  /\ AllOk /\ IsSome(snapshots.saving)
        /\ saved(did_save(buffers[Author], Unwrap(snapshots.saving).version))
        /\ snapshots' =
              [snapshots EXCEPT
                 !.saving = None,
                 !.unsaved = Unwrap(snapshots.saving).ops_since,
                 !.open_disturbed = @ \/ buffers[Author].history.transaction_depth > 0]
        /\ UNCHANGED <<network, sent, mutation_count, reference_string, applied_log,
                       apply_result, now>>

\* file.save fails: the task ends without did_save
SaveFailed ==
    /\ AllOk /\ IsSome(snapshots.saving)
    /\ snapshots' = [snapshots EXCEPT !.saving = None]
    /\ last_action' = [kind |-> "save_failed", events |-> <<>>,
                       was_dirty |-> is_dirty(buffers[Author]), outermost |-> FALSE]
    /\ UNCHANGED <<buffers, network, sent, mutation_count, reference_string, applied_log,
                   apply_result, now>>

\* fs::remove_file: the file handle changes and the buffer is told
DeleteFile ==
    /\ AllOk /\ buffers[Author].file = "File"
    /\ buffers' = [buffers EXCEPT ![Author].file = "Deleted"]
    /\ last_action' = [kind |-> "delete_file",
                       events |-> file_changed([buffers[Author] EXCEPT !.file = "Deleted"]),
                       was_dirty |-> is_dirty(buffers[Author]), outermost |-> TRUE]
    /\ snapshots' =
          [snapshots EXCEPT
             !.open_disturbed = @ \/ buffers[Author].history.transaction_depth > 0]
    /\ UNCHANGED <<network, sent, mutation_count, reference_string, applied_log,
                   apply_result, now>>

NextFile ==
    \/ FileEdit
    \/ FileStartTransaction
    \/ FileEndTransaction
    \/ FileUndo
    \/ FileRedo
    \/ FileApplyOps
    \/ Save
    \/ DidSave
    \/ SaveFailed
    \/ DeleteFile

SpecFile == InitFile /\ [][NextFile]_vars

----------------------------------------------------------------------------
(* Dirtied, Saved and is_dirty *)

\* the calls that can change is_dirty, a transaction being one call
DirtyingKinds == {"edit", "end_transaction", "undo", "redo", "apply_ops", "delete_file"}

\* the last call was one of them, made outside a transaction or ending the outermost
\* one, with no save ended and no file deleted while the transaction was open
DirtyingCall ==
    /\ last_action.kind \in DirtyingKinds
    /\ last_action.outermost
    /\ last_action.kind = "end_transaction" => ~snapshots.open_disturbed

\* C24: Dirtied is emitted exactly when is_dirty goes from false to true, by a local
\* edit or transaction, a remote apply, undo, redo, or the deletion of the file, and
\* never when the buffer was dirty before; Edited precedes Dirtied within one call;
\* the deletion of the file of a clean buffer emits Dirtied then FileHandleChanged,
\* and that of a dirty buffer only FileHandleChanged
C24_DirtiedOnTransition ==
    DirtyingCall
    => /\ (\E i \in 1..Len(last_action.events) : last_action.events[i] = "Dirtied")
            <=> (~last_action.was_dirty /\ is_dirty(buffers[Author]))
       /\ IF last_action.kind = "delete_file"
          THEN last_action.events = (IF last_action.was_dirty THEN <<"FileHandleChanged">>
                                     ELSE <<"Dirtied", "FileHandleChanged">>)
          ELSE last_action.events \in {<<>>, <<"Edited">>, <<"Edited", "Dirtied">>}

\* C25: did_save records the version captured when the save started and emits Saved;
\* the buffer is dirty exactly when operations have come after the saved version or
\* the file is deleted, so edits made while a save is in flight leave it dirty; a
\* fresh buffer bound to a file is not dirty
C25_SavedVersion ==
    /\ is_dirty(buffers[Author])
         <=> (snapshots.unsaved > 0 \/ buffers[Author].file = "Deleted")
    /\ last_action.kind = "did_save"
         => /\ buffers[Author].saved_version = last_action.version
            /\ last_action.events = <<"Saved">>
    /\ last_action.kind = "new"
         => /\ buffers[Author].file = "File"
            /\ ~is_dirty(buffers[Author])

\* a save ends after an edit made while it was in flight, and the buffer is dirty
C25_Witness ==
    /\ last_action.kind = "did_save"
    /\ last_action.was_dirty
    /\ snapshots.unsaved > 0
    /\ buffers[Author].file = "File"
    /\ buffers[Author].version # buffers[Author].saved_version
    /\ is_dirty(buffers[Author])

----------------------------------------------------------------------------
(* test_fragment_ids: a list of ids grown by FragmentId::between_with_max *)

\* the ids inserted into one list (the test inserts 100)
MaxIds == 8

\* the digit maximum of the test, and that of FragmentId::between
MaxValues == {4, U16Max}

\* ids.insert(index, id)
InsertAt(ids, index, id) == SubSeq(ids, 1, index) \o <<id>> \o SubSeq(ids, index + 1, Len(ids))

\* let mut ids = vec![FragmentId(Arc::from([0])), FragmentId(Arc::from([4]))]
InitFragmentIds ==
    /\ \E max_value \in MaxValues :
          snapshots = [ids |-> <<FRAGMENT_ID_MIN_VALUE, <<max_value>>>>, max_value |-> max_value]
    /\ buffers = <<>>
    /\ network = <<>>
    /\ sent = <<>>
    /\ mutation_count = MaxIds
    /\ reference_string = <<>>
    /\ applied_log = <<>>
    /\ apply_result = <<>>
    /\ now = 0
    /\ last_action = [kind |-> "new"]

\* one turn of the loop: an index is drawn, and the id between ids[index - 1] and
\* ids[index] is inserted at it (the model counts the ids from 1)
InsertBetween ==
    LET inserted(index, left, right) ==
            /\ snapshots' =
                  [snapshots EXCEPT
                     !.ids = InsertAt(@, index,
                                      between_with_max(left, right, snapshots.max_value))]
            /\ last_action' =
                  [kind |-> "insert", index |-> index,
                   id |-> between_with_max(left, right, snapshots.max_value),
                   overflow |-> between_overflows(left, right, snapshots.max_value, 1)]
    IN  /\ mutation_count # 0
        /\ \E index \in 1..(Len(snapshots.ids) - 1) :
              inserted(index, snapshots.ids[index], snapshots.ids[index + 1])
        /\ mutation_count' = mutation_count - 1
        /\ UNCHANGED <<buffers, network, sent, reference_string, applied_log, apply_result, now>>

NextFragmentIds == InsertBetween

SpecFragmentIds == InitFragmentIds /\ [][NextFragmentIds]_vars

\* between_with_max(left, right, max_value) is an id strictly between left and right,
\* computed with no digit leaving the u16 range
Dense(left, right, max_value) ==
    /\ ~between_overflows(left, right, max_value, 1)
    /\ FragmentIdLess(left, between_with_max(left, right, max_value))
    /\ FragmentIdLess(between_with_max(left, right, max_value), right)

\* the list is strictly sorted, holds no id twice, and its digits are within the maximum
SortedIds(ids, max_value) ==
    /\ \A i \in 1..(Len(ids) - 1) : FragmentIdLess(ids[i], ids[i + 1])
    /\ \A i, j \in 1..Len(ids) : i # j => ids[i] # ids[j]
    /\ \A i \in 1..Len(ids) : \A k \in 1..Len(ids[i]) : ids[i][k] \in 0..max_value

\* what test_fragment_ids asserts, and more: in a list grown from [MIN, MAX] by
\* inserting between adjacent ids, between gives for every adjacent pair a < b an id
\* c with a < c < b, with no underflow or overflow of the digits; the list stays
\* strictly sorted and never holds an id twice
AdjacentIdsDense ==
    /\ SortedIds(snapshots.ids, snapshots.max_value)
    /\ last_action.kind = "insert" => ~last_action.overflow
    /\ \A i \in 1..(Len(snapshots.ids) - 1) :
          Dense(snapshots.ids[i], snapshots.ids[i + 1], snapshots.max_value)

\* the list holds its last id, that id has three digits, and ids of one, two and
\* three digits are side by side
ThreeDigitIds ==
    /\ last_action.kind = "insert"
    /\ mutation_count = 0
    /\ Len(last_action.id) = 3
    /\ \E i \in 1..(Len(snapshots.ids) - 2) :
          /\ Len(snapshots.ids[i]) = 2
          /\ Len(snapshots.ids[i + 1]) = 3
          /\ Len(snapshots.ids[i + 2]) = 1

\* C26: for any two fragment ids a < b, here any two ids of a list grown from
\* [MIN, MAX] with the digit maximum 4 or u16::MAX, between gives an id c with
\* a < c < b, with no underflow or overflow of the 16-bit digits; inserting between
\* adjacent ids keeps the list strictly sorted and never gives an id twice
C26_AnyTwoIds ==
    /\ AdjacentIdsDense
    /\ \A i, j \in 1..Len(snapshots.ids) :
          i < j => Dense(snapshots.ids[i], snapshots.ids[j], snapshots.max_value)

----------------------------------------------------------------------------
(* The timestamps of the operations *)

\* the Lamport timestamp of the k-th operation replica r has sent
SentLamport(r, k) == sent[r][k].op.lamport_timestamp

\* C27: every operation a replica emits (Edit, Undo, UpdateSelections) carries a
\* Lamport timestamp strictly greater than that of every operation the replica had
\* generated or applied before it; the Lamport timestamps of the operations of one
\* replica are strictly increasing in the order of generation
C27_LamportAboveObserved ==
    \A r \in ReplicaIds :
        \A k \in 1..Len(sent[r]) :
            /\ SentLamport(r, k).replica_id = r
            /\ \A id \in sent[r][k].seen : id.value < SentLamport(r, k).value
            /\ \A j \in 1..(k - 1) : SentLamport(r, j).value < SentLamport(r, k).value

\* a replica has emitted an Edit and then, after applying an operation of the other
\* replica whose timestamp is above all it had generated, the Undo of that edit
C27_Witness ==
    \E r \in ReplicaIds :
        \E k \in 2..Len(sent[r]) :
            /\ sent[r][k].op.type = "Undo"
            /\ sent[r][k - 1].op.type = "Edit"
            /\ \E id \in sent[r][k].seen :
                  /\ id.replica_id # r
                  /\ \A j \in 1..(k - 1) : SentLamport(r, j).value < id.value
                  /\ id.value < SentLamport(r, k).value

\* the local timestamp of an Edit or an Undo
LocalIdOf(op) == IF op.type = "Edit" THEN op.edit.id ELSE op.undo.id

\* the operations replica r has sent that carry a local timestamp
Timestamped(r) == {k \in 1..Len(sent[r]) : sent[r][k].op.type \in {"Edit", "Undo"}}

\* the edit calls counted: those of EditChoices, calls whose ranges are all empty with
\* an empty text, and calls of two ranges of which none, one or the other is
EditCalls(r, n) ==
    EditChoices(r, n)
    \cup {<<<<Range(0, 0)>>, None>>, <<<<Range(0, 0), Range(n, n)>>, None>>}
    \cup (IF n >= 1 THEN {<<<<Range(0, 0), Range(n - 1, n)>>, None>>,
                          <<<<Range(0, 1), Range(n, n)>>, None>>}
          ELSE {})
    \cup (IF n >= 2 THEN {<<<<Range(0, 1), Range(n - 1, n)>>, None>>,
                          <<<<Range(0, 1), Range(n - 1, n)>>, TypedText(r)>>}
          ELSE {})

\* the ranges of a call that are not empty with an empty replacement
Kept(old_ranges, new_text) ==
    SelectSeq(old_ranges, LAMBDA range : ~(range.start = range.end /\ new_text = <<>>))

\* res is what an edit call of replica r with k kept ranges returns: k Edit operations
\* whose local timestamps are fresh and strictly increasing
FreshEdits(r, res, k) ==
    /\ res.err = "Ok"
    /\ Len(res.ops) = k
    /\ \A i \in 1..Len(res.ops) :
          /\ res.ops[i].type = "Edit"
          /\ res.ops[i].edit.id.replica_id = r
          /\ \A j \in Timestamped(r) :
                LocalIdOf(sent[r][j].op).value < res.ops[i].edit.id.value
          /\ \A j \in 1..(i - 1) : res.ops[j].edit.id.value < res.ops[i].edit.id.value

\* C28: every operation generated by one replica (one Edit for each range of an edit
\* call that is not dropped, one Undo for each undo_or_redo) has a fresh local
\* timestamp: the local timestamps of the operations of a replica are pairwise
\* distinct and strictly increasing; an edit call with k ranges not dropped returns
\* exactly k Edit operations; a range that is empty with an empty replacement gives
\* no operation
C28_FreshLocalTimestamps ==
    /\ \A r \in ReplicaIds :
          \A j, k \in Timestamped(r) :
              /\ LocalIdOf(sent[r][k].op).replica_id = r
              /\ j < k => LocalIdOf(sent[r][j].op).value < LocalIdOf(sent[r][k].op).value
    /\ AllOk
         => \A r \in ReplicaIds :
               \A c \in EditCalls(r, len(buffers[r])) :
                   FreshEdits(r, edit(buffers[r], c[1], c[2], now), Len(Kept(c[1], c[2])))

\* a replica has sent the two Edit operations of one call and then an Undo, and the
\* calls it could make now include calls of two, one and no kept range
C28_Witness ==
    \E r \in ReplicaIds :
        /\ AllOk
        /\ \E k \in 1..(Len(sent[r]) - 2) :
              /\ sent[r][k].op.type = "Edit"
              /\ sent[r][k + 1].op.type = "Edit"
              /\ sent[r][k + 1].seen = sent[r][k].seen \cup {op_id(sent[r][k].op)}
              /\ sent[r][k + 2].op.type = "Undo"
        /\ {Len(Kept(c[1], c[2])) : c \in EditCalls(r, len(buffers[r]))} = {0, 1, 2}

----------------------------------------------------------------------------
(* The operations that wait *)

\* the state in which an operation is applicable: for an Undo, with or without the
\* edit in the history of the replica
Applicable(buf, op, in_history) ==
    IF op.type = "Edit"
    THEN /\ GlobalObserved(buf.version, op.edit.start_id)
         /\ GlobalObserved(buf.version, op.edit.end_id)
         /\ GlobalLeq(op.edit.version_in_range, buf.version)
    ELSE IF op.type = "Undo"
    THEN /\ GlobalObserved(buf.version, op.undo.edit_id)
         /\ in_history => op.undo.edit_id \in DOMAIN buf.history.ops
    ELSE IsSome(op.selections)
         => \A k \in 1..Len(Unwrap(op.selections)) :
               /\ anchor_observed(buf.version, Unwrap(op.selections)[k].start)
               /\ anchor_observed(buf.version, Unwrap(op.selections)[k].end)

\* res is what apply_ops gave for op alone: op is in the deferred queue and has
\* changed neither the text nor the selections
Deferred(buf, op, res) ==
    /\ res.err = "Ok"
    /\ res.applied = <<>>
    /\ \E k \in 1..Len(res.buf.deferred_ops) : res.buf.deferred_ops[k] = op
    /\ text(res.buf) = text(buf)
    /\ res.buf.selections = buf.selections

\* every operation that waits for a replica and is not applicable is deferred
GuardedBy(in_history) ==
    AllOk
    => \A r \in ReplicaIds :
          \A p \in network[r] :
              ~Applicable(buffers[r], SentOp(p), in_history)
              => Deferred(buffers[r], SentOp(p), apply_ops(buffers[r], <<SentOp(p)>>))

\* C29: a remote operation takes effect only in a state where it is applicable: an
\* Edit when the version has observed start_id and end_id and version_in_range <=
\* version, an Undo when the version has observed its edit_id and the edit is in the
\* history of the replica, an UpdateSelections when the insertion of every Middle
\* anchor is observed; otherwise it is put in the deferred queue, and the text and the
\* selections are not changed by it
C29_ApplicabilityGuard == GuardedBy(TRUE)

\* the guard as can_apply_op has it, an Undo asking only for an observed edit_id
ObservedGuard == GuardedBy(FALSE)

\* the operations of a batch the network hands over
BatchOps(batch) == [k \in 1..Len(batch) |-> SentOp(batch[k])]

\* the `for op in ops` loop of apply_ops on a buffer
ApplyLoop(buf, ops) ==
    apply_each([buf |-> buf, deferred |-> <<>>, applied |-> <<>>, err |-> "Ok"], ops)

\* in the loop of apply_ops: an operation of a replica that was blocked before the call
\* is deferred, and so is every operation that comes after a deferred one of its replica
BlockedInLoop(buf, ops, loop) ==
    loop.err = "Ok"
    => /\ \A j \in 1..Len(ops) :
            op_replica_id(ops[j]) \in buf.deferred_replicas
            => ops[j] \in SeqToSet(loop.deferred)
       /\ \A i, j \in 1..Len(ops) :
            (i < j /\ op_replica_id(ops[i]) = op_replica_id(ops[j])
               /\ ops[i] \in SeqToSet(loop.deferred))
            => ops[j] \in SeqToSet(loop.deferred)
       /\ SeqToSet(loop.deferred) \cap SeqToSet(loop.applied) = {}

\* in the flush pass that ends apply_ops: an operation that took effect in the pass
\* comes, in the order of the queue, before every operation of its replica that stays
\* deferred; the replicas that stay blocked are those with an operation left
BlockedInFlush(loop, res) ==
    res.err = "Ok"
    => /\ \A k \in (Len(loop.applied) + 1)..Len(res.applied) :
            \A d \in 1..Len(res.buf.deferred_ops) :
                op_replica_id(res.buf.deferred_ops[d]) = op_replica_id(res.applied[k])
                => LamportLess(op_id(res.applied[k]), op_id(res.buf.deferred_ops[d]))
       /\ res.buf.deferred_replicas
            = {op_replica_id(res.buf.deferred_ops[d]) : d \in 1..Len(res.buf.deferred_ops)}

\* C30: once an operation of replica r is deferred, every operation of r examined
\* later, in the same batch of apply_ops, in later batches, and later in the same flush
\* pass, is deferred too, even if it is applicable on its own, until a flush pass in
\* which no earlier operation of r stays deferred
C30_BlockedReplicas ==
    /\ \A r \in ReplicaIds :
          /\ buffers[r].deferred_replicas
               = {op_replica_id(buffers[r].deferred_ops[d]) :
                    d \in 1..Len(buffers[r].deferred_ops)}
          /\ \A i, j \in 1..Len(buffers[r].deferred_ops) :
                i < j => LamportLess(op_id(buffers[r].deferred_ops[i]),
                                     op_id(buffers[r].deferred_ops[j]))
    /\ AllOk
         => \A r \in ReplicaIds :
               \A batch \in Batches(network[r]) :
                   /\ BlockedInLoop(buffers[r], BatchOps(batch),
                                    ApplyLoop(buffers[r], BatchOps(batch)))
                   /\ BlockedInFlush(ApplyLoop(buffers[r], BatchOps(batch)),
                                     apply_ops(buffers[r], BatchOps(batch)))

\* a replica holds, behind a deferred operation that is not applicable, an operation
\* of the same replica that is applicable on its own
C30_Witness ==
    \E r \in ReplicaIds :
        /\ AllOk
        /\ \E i, j \in 1..Len(buffers[r].deferred_ops) :
              /\ i < j
              /\ op_replica_id(buffers[r].deferred_ops[i])
                   = op_replica_id(buffers[r].deferred_ops[j])
              /\ op_replica_id(buffers[r].deferred_ops[j]) \in buffers[r].deferred_replicas
              /\ ~Applicable(buffers[r], buffers[r].deferred_ops[i], TRUE)
              /\ Applicable(buffers[r], buffers[r].deferred_ops[j], TRUE)

\* every operation left in the deferred queue of buf is not applicable at the version
\* of buf, or comes after a not applicable operation of its replica
Stuck(buf) ==
    \A d \in 1..Len(buf.deferred_ops) :
        \/ ~Applicable(buf, buf.deferred_ops[d], FALSE)
        \/ \E i \in 1..(d - 1) :
              /\ op_replica_id(buf.deferred_ops[i]) = op_replica_id(buf.deferred_ops[d])
              /\ LamportLess(op_id(buf.deferred_ops[i]), op_id(buf.deferred_ops[d]))
              /\ ~Applicable(buf, buf.deferred_ops[i], FALSE)

----------------------------------------------------------------------------
(* test_random_concurrent_edits with three peers: two that edit, and a third that *)
(* only applies what the network hands it                                         *)

Peers == {0, 1, 2}

\* the peers that edit
Editors == {0, 1}

\* the edits of the editors together
MaxPeerEdits == 4

PeersOk == \A r \in Peers : apply_result[r] = "Ok"

\* an insertion at the start, or the deletion of one character
PeerChoices(r, n) ==
    {<<<<Range(0, 0)>>, TypedText(r)>>} \cup {<<<<Range(i, i + 1)>>, None>> : i \in 0..(n - 1)}

InitPeers ==
    /\ buffers = [r \in Peers |-> BufferNew(r, <<>>)]
    /\ network = [r \in Peers |-> {}]
    /\ sent = [r \in Peers |-> <<>>]
    /\ mutation_count = MaxPeerEdits
    /\ reference_string = [r \in Peers |-> <<>>]
    /\ applied_log = [r \in Peers |-> <<>>]
    /\ apply_result = [r \in Peers |-> "Ok"]
    /\ now = 0
    /\ last_action = [kind |-> "new"]
    /\ snapshots = [open |-> <<>>, undo |-> <<>>, redo |-> <<>>]

\* buffer.edit(old_ranges, new_text) and network.broadcast(replica_id, ops)
PeerEdit(r) ==
    LET edited(res) ==
            /\ buffers' = [buffers EXCEPT ![r] = res.buf]
            /\ apply_result' = [apply_result EXCEPT ![r] = res.err]
            /\ sent' = [sent EXCEPT ![r] = @ \o [k \in 1..Len(res.ops) |->
                                   [op |-> res.ops[k], seen |-> SeqToSet(applied_log[r])]]]
            /\ network' = [q \in Peers |->
                             IF q = r THEN network[q]
                             ELSE network[q] \cup
                                  {<<r, k>> : k \in (Len(sent[r]) + 1)..(Len(sent[r]) + Len(res.ops))}]
            /\ applied_log' = [applied_log EXCEPT ![r] = @ \o op_ids(res.ops)]
            /\ reference_string' = [reference_string EXCEPT ![r] = text(res.buf)]
    IN  /\ PeersOk /\ mutation_count # 0
        /\ \E c \in PeerChoices(r, len(buffers[r])) : edited(edit(buffers[r], c[1], c[2], now))
        /\ mutation_count' = mutation_count - 1
        /\ UNCHANGED <<now, last_action, snapshots>>

\* buffer.apply_ops(network.receive(replica_id)), the network handing over one of the
\* operations that wait for the peer
PeerReceive(r) ==
    LET received(p, res) ==
            /\ buffers' = [buffers EXCEPT ![r] = res.buf]
            /\ apply_result' = [apply_result EXCEPT ![r] = res.err]
            /\ applied_log' = [applied_log EXCEPT ![r] = @ \o op_ids(res.applied)]
            /\ network' = [network EXCEPT ![r] = @ \ {p}]
            /\ reference_string' = [reference_string EXCEPT ![r] = text(res.buf)]
    IN  /\ PeersOk
        /\ \E p \in network[r] : received(p, apply_ops(buffers[r], <<SentOp(p)>>))
        /\ UNCHANGED <<sent, mutation_count, now, last_action, snapshots>>

NextPeers ==
    \/ \E r \in Editors : PeerEdit(r)
    \/ \E r \in Peers : PeerReceive(r)

SpecPeers == InitPeers /\ [][NextPeers]_vars

\* C31: the deferred queue is retried until nothing more can be applied: when
\* apply_ops returns, every operation left in the deferred queue is not applicable
\* at the final version, or comes from a replica that has an earlier operation, of
\* lower Lamport timestamp, in the queue that is not applicable; the retry ends
C31_DeferredRetried ==
    \A r \in Peers : apply_result[r] = "Ok" => Stuck(buffers[r])

----------------------------------------------------------------------------
(* Local edits, concurrent edits, undo_or_redo *)

\* C14: no call takes the version of a replica back: every step of a replica (edit,
\* undo_or_redo, apply_ops, the selection calls) leaves a version that is pointwise
\* at least the version before it, and so do undo() and the redo() after it
C14_VersionMonotonic ==
    [][\A r \in ReplicaIds :
          /\ GlobalLeq(buffers[r].version, buffers'[r].version)
          /\ apply_result[r] = "Ok"
             => /\ GlobalLeq(buffers[r].version, undo(buffers[r]).buf.version)
                /\ GlobalLeq(undo(buffers[r]).buf.version,
                             redo(undo(buffers[r]).buf).buf.version)]_vars

\* a replica has made an edit, undone it and applied an edit of the other replica:
\* its version has moved for both replicas
C14_Witness ==
    \E r \in ReplicaIds :
        /\ apply_result[r] = "Ok"
        /\ \A q \in ReplicaIds : buffers[r].version[q] >= 1
        /\ buffers[r].version[r] >= 2
        /\ DOMAIN buffers[r].undo_map # {}
        /\ \E q \in ReplicaIds \ {r} :
              \E id \in DOMAIN buffers[r].history.ops : id.replica_id = q

\* test_edit: "abc", then five edits
test_edit ==
    LET b0 == BufferNew(0, <<"a", "b", "c">>)
        b1 == edit(b0, <<Range(3, 3)>>, <<"d", "e", "f">>, 0).buf
        b2 == edit(b1, <<Range(0, 0)>>, <<"g", "h", "i">>, 0).buf
        b3 == edit(b2, <<Range(5, 5)>>, <<"j", "k", "l">>, 0).buf
        b4 == edit(b3, <<Range(6, 7)>>, <<>>, 0).buf
        b5 == edit(b4, <<Range(4, 9)>>, <<"m", "n", "o">>, 0).buf
    IN  <<text(b1), text(b2), text(b3), text(b4), text(b5)>>

\* C2: after every local edit, and after any sequence of edits, undo_or_redo calls and
\* remote operations, the text of a replica is its reference string: the previous
\* text with each of the ranges of the edit replaced by the new text
C2_EditMatchesReference ==
    /\ \A r \in ReplicaIds :
          /\ apply_result[r] # "LocalFailure"
          /\ text(buffers[r]) = reference_string[r]
    /\ test_edit = << <<"a", "b", "c", "d", "e", "f">>,
                      <<"g", "h", "i", "a", "b", "c", "d", "e", "f">>,
                      <<"g", "h", "i", "a", "b", "j", "k", "l", "c", "d", "e", "f">>,
                      <<"g", "h", "i", "a", "b", "j", "l", "c", "d", "e", "f">>,
                      <<"g", "h", "i", "a", "m", "n", "o", "e", "f">> >>

\* a replica whose last operation is an edit of two ranges made after an undo_or_redo
C2_Witness ==
    \E r \in ReplicaIds :
        LET n == Len(sent[r])
        IN  /\ n >= 3
            /\ sent[r][n].op.type = "Edit" /\ sent[r][n - 1].op.type = "Edit"
            /\ sent[r][n - 2].op.type = "Undo"
            /\ sent[r][n].seen = sent[r][n - 1].seen \cup {op_id(sent[r][n - 1].op)}
            /\ Last(applied_log[r]) = op_id(sent[r][n].op)
            /\ text(buffers[r]) = reference_string[r]
            /\ text(buffers[r]) = <<"x", "a", "b", "x">>

\* the ranges of two edits do not overlap
Disjoint(ranges1, ranges2) ==
    \A i \in 1..Len(ranges1), j \in 1..Len(ranges2) :
        \/ ranges1[i].end <= ranges2[j].start
        \/ ranges2[j].end <= ranges1[i].start

\* both replicas have applied the same operations and nothing is under way
CommonState ==
    /\ AllOk
    /\ \A r \in ReplicaIds : network[r] = {}
    /\ Applied(0) = Applied(1)

\* replica 0 edits c0 and replica 1 edits c1 at once, then each applies the
\* operations of the other: the two outcomes of apply_ops
Exchange(c0, c1) ==
    LET e0 == edit(buffers[0], c0[1], c0[2], now)
        e1 == edit(buffers[1], c1[1], c1[2], now)
    IN  <<apply_ops(e0.buf, e1.ops), apply_ops(e1.buf, e0.ops)>>

\* "abcdef": A replaces 2..4 by "XYZ", B inserts "u" at 5
ConcurrentEditsExample ==
    LET base == <<"a", "b", "c", "d", "e", "f">>
        a == edit(BufferNew(0, base), <<Range(2, 4)>>, <<"X", "Y", "Z">>, 0)
        b == edit(BufferNew(1, base), <<Range(5, 5)>>, <<"u">>, 0)
    IN  <<text(apply_ops(a.buf, b.ops).buf), text(apply_ops(b.buf, a.ops).buf)>>

\* C3: from a common state, two edits of disjoint ranges made at once by the two
\* replicas commute: the replica that made the first and applies the second, and
\* the replica that made the second and applies the first, end with the same text
C3_DisjointEditsCommute ==
    /\ CommonState =>
          \A c0 \in EditChoices(0, len(buffers[0])), c1 \in EditChoices(1, len(buffers[1])) :
              Disjoint(c0[1], c1[1]) =>
                  LET x == Exchange(c0, c1)
                  IN  /\ x[1].err = "Ok" /\ x[2].err = "Ok"
                      /\ text(x[1].buf) = text(x[2].buf)
    /\ ConcurrentEditsExample = << <<"a", "b", "X", "Y", "Z", "e", "u", "f">>,
                                  <<"a", "b", "X", "Y", "Z", "e", "u", "f">> >>

\* the replicas were in a common state, reached by an edit of replica 0 that replica
\* 1 applied; each made an edit there without the edit of the other, and each has
\* applied the edit of the other
C3_Witness ==
    /\ Len(sent[0]) = 2 /\ Len(sent[1]) = 1
    /\ sent[0][1].op.type = "Edit" /\ sent[0][2].op.type = "Edit"
    /\ sent[1][1].op.type = "Edit"
    /\ sent[1][1].seen = {op_id(sent[0][1].op)}
    /\ sent[0][2].seen = {op_id(sent[0][1].op)}
    /\ CommonState
    /\ text(buffers[0]) = text(buffers[1])
    /\ Len(text(buffers[0])) = 5

\* the visibility of every fragment
Visibility(buf) ==
    [k \in 1..Len(buf.fragments) |-> <<buf.fragments[k].id, buf.fragments[k].visible>>]

\* undo_or_redo of each of the edits, one after the other
undo_or_redo_all(buf, edit_ids) == undo_redo_each(Result(buf, <<>>, "Ok"), edit_ids)

\* test_undo_redo: "1234", three edits, then undo_or_redo of the first one, twice
test_undo_redo ==
    LET b0 == BufferNew(0, <<"1", "2", "3", "4">>)
        e1 == edit(b0, <<Range(1, 1)>>, <<"a", "b", "x">>, 0)
        e2 == edit(e1.buf, <<Range(3, 4)>>, <<"y", "z", "e", "f">>, 0)
        e3 == edit(e2.buf, <<Range(3, 5)>>, <<"c", "d">>, 0)
        edit1 == e1.ops[1].edit.id
        edit2 == e2.ops[1].edit.id
        edit3 == e3.ops[1].edit.id
        u1 == undo_or_redo(e3.buf, edit1)
        u2 == undo_or_redo(u1.buf, edit1)
        u3 == undo_or_redo(u2.buf, edit2)
        u4 == undo_or_redo(u3.buf, edit3)
        u5 == undo_or_redo(u4.buf, edit2)
        u6 == undo_or_redo(u5.buf, edit3)
        u7 == undo_or_redo(u6.buf, edit3)
        u8 == undo_or_redo(u7.buf, edit1)
        u9 == undo_or_redo(u8.buf, edit2)
    IN  <<text(e3.buf), text(u1.buf), text(u2.buf), text(u3.buf), text(u4.buf),
          text(u5.buf), text(u6.buf), text(u7.buf), text(u8.buf), text(u9.buf)>>

\* C8: in every state of a replica and for every edit of its history, two
\* undo_or_redo calls of that edit in a row bring back the text and the visibility of
\* every fragment; undoing two edits, in either order, and redoing them brings back
\* the text
C8_UndoSymmetry ==
    /\ \A r \in ReplicaIds :
          apply_result[r] # "Panic" =>
              \A e \in DOMAIN buffers[r].history.ops :
                  LET once == undo_or_redo(buffers[r], e)
                      twice == undo_or_redo(once.buf, e)
                  IN  /\ once.err = "Ok" /\ twice.err = "Ok"
                      /\ text(twice.buf) = text(buffers[r])
                      /\ Visibility(twice.buf) = Visibility(buffers[r])
                      /\ \A f \in DOMAIN buffers[r].history.ops \ {e} :
                            text(undo_or_redo_all(once.buf, <<f, e, f>>).buf)
                               = text(buffers[r])
    /\ test_undo_redo = << <<"1", "a", "b", "c", "d", "e", "f", "2", "3", "4">>,
                           <<"1", "c", "d", "e", "f", "2", "3", "4">>,
                           <<"1", "a", "b", "c", "d", "e", "f", "2", "3", "4">>,
                           <<"1", "a", "b", "c", "d", "x", "2", "3", "4">>,
                           <<"1", "a", "b", "x", "2", "3", "4">>,
                           <<"1", "a", "b", "y", "z", "e", "f", "2", "3", "4">>,
                           <<"1", "a", "b", "c", "d", "e", "f", "2", "3", "4">>,
                           <<"1", "a", "b", "y", "z", "e", "f", "2", "3", "4">>,
                           <<"1", "y", "z", "e", "f", "2", "3", "4">>,
                           <<"1", "2", "3", "4">> >>

\* a replica has just called undo_or_redo twice for an edit that deleted the first
\* character, and its text is again what it was after the edit
C8_Witness ==
    \E r \in ReplicaIds :
        LET n == Len(sent[r])
        IN  /\ n >= 3
            /\ sent[r][n].op.type = "Undo" /\ sent[r][n - 1].op.type = "Undo"
            /\ sent[r][n].op.undo.edit_id = sent[r][n - 1].op.undo.edit_id
            /\ sent[r][n].op.undo.count = 2
            /\ Last(applied_log[r]) = op_id(sent[r][n].op)
            /\ apply_result[r] = "Ok"
            /\ ~IsSome(buffers[r].history.ops[sent[r][n].op.undo.edit_id].new_text)
            /\ text(buffers[r]) = <<"b">>

----------------------------------------------------------------------------
(* Undos of one edit made at once by the two replicas *)

\* the visibility of every character of the fragments an edit inserted or tombstoned
EditVisibility(buf, e) ==
    UNION {{<<buf.fragments[k].insertion.id, o, buf.fragments[k].visible>> :
               o \in buf.fragments[k].start..(buf.fragments[k].end - 1)} :
           k \in {i \in 1..Len(buf.fragments) :
                    \/ buf.fragments[i].insertion.id = e
                    \/ e \in buf.fragments[i].deletions}}

\* the operations replica r has sent
SentOps(r) == [k \in 1..Len(sent[r]) |-> sent[r][k].op]

\* the largest count among Undo operations of the edit e
RECURSIVE MaxSent(_, _)
MaxSent(ops, e) ==
    IF ops = <<>> THEN 0
    ELSE Max(IF Head(ops).type = "Undo" /\ Head(ops).undo.edit_id = e
             THEN Head(ops).undo.count ELSE 0,
             MaxSent(Tail(ops), e))

\* one apply_ops call for each operation
RECURSIVE apply_ops_each(_, _)
apply_ops_each(res, ops) ==
    IF ops = <<>> \/ res.err # "Ok" THEN res
    ELSE apply_ops_each(apply_ops(res.buf, <<Head(ops)>>), Tail(ops))

\* the orders in which the network hands over one or two operations
Orders(ops) == IF Len(ops) = 2 THEN {ops, <<ops[2], ops[1]>>} ELSE {ops}

\* what a replica that holds buf may end with when it is handed ops, in any order, in
\* one batch or one by one
Outcomes(buf, ops) ==
    {apply_ops(buf, o) : o \in Orders(ops)}
    \cup {apply_ops_each([buf |-> buf, err |-> "Ok"], o) : o \in Orders(ops)}

\* the two replicas end alike for the edit e: the same undo_count, the largest count
\* of the records, and the same visibility of what e inserted or tombstoned
Alike(f0, f1, e, count) ==
    /\ f0.err = "Ok" /\ f1.err = "Ok"
    /\ undo_count(f0.buf.undo_map, e) = count
    /\ undo_count(f1.buf.undo_map, e) = count
    /\ is_undone(f0.buf.undo_map, e) <=> count % 2 = 1
    /\ is_undone(f1.buf.undo_map, e) <=> count % 2 = 1
    /\ EditVisibility(f0.buf, e) = EditVisibility(f1.buf, e)
    /\ text(f0.buf) = text(f1.buf)

\* replica 0 has called undo_or_redo of e n0 times (a0), replica 1 n1 times (a1), at
\* once: however the Undo operations are exchanged, the replicas end alike
UndoneAtOnce(e, a0, a1) ==
    /\ a0.err = "Ok" /\ a1.err = "Ok"
    /\ \A f0 \in Outcomes(a0.buf, a1.ops), f1 \in Outcomes(a1.buf, a0.ops) :
          Alike(f0, f1, e, Max(undo_count(buffers[0].undo_map, e),
                               MaxSent(a0.ops \o a1.ops, e)))

\* undo_or_redo of e, n times in a row
Repeated(e, n) == [k \in 1..n |-> e]

\* C32: undo_count of an edit is the largest count of its undo records and the edit is
\* undone iff that count is odd; when the replicas undo or redo the same edit at once
\* and exchange the Undo operations in any order, they end with the same undo_count
\* of the edit and the same visibility of every fragment it inserted or tombstoned
C32_ConcurrentUndos ==
    CommonState
    => \A e \in DOMAIN buffers[0].history.ops \cap DOMAIN buffers[1].history.ops :
          /\ undo_count(buffers[0].undo_map, e) = undo_count(buffers[1].undo_map, e)
          /\ undo_count(buffers[0].undo_map, e) = MaxSent(SentOps(0) \o SentOps(1), e)
          /\ EditVisibility(buffers[0], e) = EditVisibility(buffers[1], e)
          /\ \A n0, n1 \in 1..2 :
                UndoneAtOnce(e, undo_or_redo_all(buffers[0], Repeated(e, n0)),
                             undo_or_redo_all(buffers[1], Repeated(e, n1)))

\* the two replicas have undone the same edit at once, each with the count 1, and
\* have exchanged the two Undo operations
C32_Witness ==
    /\ CommonState
    /\ \E e \in DOMAIN buffers[0].history.ops \cap DOMAIN buffers[1].history.ops :
          /\ undo_count(buffers[0].undo_map, e) = 1
          /\ Len(buffers[0].undo_map[e]) = 2
          /\ Len(buffers[1].undo_map[e]) = 2
          /\ \E k \in 1..Len(sent[0]), j \in 1..Len(sent[1]) :
                /\ sent[0][k].op.type = "Undo" /\ sent[1][j].op.type = "Undo"
                /\ sent[0][k].op.undo.edit_id = e /\ sent[1][j].op.undo.edit_id = e
                /\ sent[0][k].op.undo.count = 1 /\ sent[1][j].op.undo.count = 1

----------------------------------------------------------------------------
(* The stored visibility of the fragments *)

RECURSIVE VisibleTextOf(_, _, _)
\* the concatenation, in the order of the fragment ids, of the fragments that
\* Fragment::is_visible tells visible
VisibleTextOf(frags, undo_map, i) ==
    IF i > Len(frags) THEN <<>>
    ELSE (IF is_visible(frags[i], undo_map) THEN FragmentText(frags[i]) ELSE <<>>)
         \o VisibleTextOf(frags, undo_map, i + 1)

StoredFlags(buf) ==
    /\ \A k \in 1..Len(buf.fragments) :
          buf.fragments[k].visible = is_visible(buf.fragments[k], buf.undo_map)
    /\ \A k \in 1..(Len(buf.fragments) - 1) :
          FragmentIdLess(buf.fragments[k].id, buf.fragments[k + 1].id)
    /\ text(buf) = VisibleTextOf(buf.fragments, buf.undo_map, 1)

\* C33: in every reachable state the stored visible flag of every fragment equals
\* (its insertion is not undone) and (every edit of its deletions is undone) for the
\* current undo map, and the text is the concatenation of the visible fragments in
\* the order of their ids
C33_VisibleFlags ==
    \A r \in DOMAIN buffers : apply_result[r] = "Ok" => StoredFlags(buffers[r])

\* a replica holds a fragment that is shown again after the undo of its deletion,
\* one that is hidden by the undo of its insertion and one that a deletion hides
C33_Witness ==
    \E r \in DOMAIN buffers :
        /\ apply_result[r] = "Ok"
        /\ \E k \in 1..Len(buffers[r].fragments) :
              /\ buffers[r].fragments[k].visible
              /\ buffers[r].fragments[k].deletions # {}
        /\ \E k \in 1..Len(buffers[r].fragments) :
              /\ ~buffers[r].fragments[k].visible
              /\ is_undone(buffers[r].undo_map, buffers[r].fragments[k].insertion.id)

----------------------------------------------------------------------------
(* Insertions made at once at the same place *)

\* the index of the fragment that holds the text of the insertion `id`
InsertionIndex(buf, id) ==
    CHOOSE k \in 1..Len(buf.fragments) : buf.fragments[k].insertion.id = id

\* in buf the text of the edit `first` comes before the text of the edit `second`
SortsBefore(buf, first, second) ==
    InsertionIndex(buf, first.edit.id) < InsertionIndex(buf, second.edit.id)

\* replica 0 and replica 1 insert at the offset p at once, the two operations name
\* the same place, and each replica applies the operation of the other: on both
\* replicas ordered(buf, lower, higher) holds of the two operations
InsertedAtOnce(p, ordered(_, _, _)) ==
    LET c0 == <<<<Range(p, p)>>, TypedText(0)>>
        c1 == <<<<Range(p, p)>>, TypedText(1)>>
        op0 == edit(buffers[0], c0[1], c0[2], now).ops[1]
        op1 == edit(buffers[1], c1[1], c1[2], now).ops[1]
        x == Exchange(c0, c1)
        lower == IF LamportLess(op0.lamport_timestamp, op1.lamport_timestamp) THEN op0 ELSE op1
        higher == IF LamportLess(op0.lamport_timestamp, op1.lamport_timestamp) THEN op1 ELSE op0
    IN  (/\ op0.edit.start_id = op1.edit.start_id
         /\ op0.edit.start_offset = op1.edit.start_offset)
        => /\ x[1].err = "Ok" /\ x[2].err = "Ok"
           /\ ordered(x[1].buf, lower, higher)
           /\ ordered(x[2].buf, lower, higher)

HigherSortsAfter(buf, lower, higher) == SortsBefore(buf, lower, higher)

HigherSortsBefore(buf, lower, higher) == SortsBefore(buf, higher, lower)

\* C34: two insertions made at once at the same anchor: on every replica, whatever
\* the order in which the two are applied, the fragment with the higher Lamport
\* timestamp sorts after the fragment with the lower one
C34_HigherLamportAfter ==
    CommonState
    => \A p \in 0..Min(len(buffers[0]), len(buffers[1])) : InsertedAtOnce(p, HigherSortsAfter)

\* C34, as the code has it: on every replica the fragment with the higher Lamport
\* timestamp sorts before the fragment with the lower one
C34_HigherLamportBefore ==
    CommonState
    => \A p \in 0..Min(len(buffers[0]), len(buffers[1])) : InsertedAtOnce(p, HigherSortsBefore)

\* the two replicas have inserted at the same anchor at once, with different Lamport
\* counters, and each has applied the insertion of the other
C34_Witness ==
    /\ CommonState
    /\ \E k \in 1..Len(sent[0]), j \in 1..Len(sent[1]) :
          /\ sent[0][k].op.type = "Edit" /\ sent[1][j].op.type = "Edit"
          /\ IsSome(sent[0][k].op.edit.new_text) /\ IsSome(sent[1][j].op.edit.new_text)
          /\ sent[0][k].op.edit.start_id = sent[1][j].op.edit.start_id
          /\ sent[0][k].op.edit.start_offset = sent[1][j].op.edit.start_offset
          /\ sent[0][k].op.edit.end_id = sent[0][k].op.edit.start_id
          /\ sent[0][k].op.edit.end_offset = sent[0][k].op.edit.start_offset
          /\ sent[1][j].op.edit.end_id = sent[1][j].op.edit.start_id
          /\ sent[1][j].op.edit.end_offset = sent[1][j].op.edit.start_offset
          /\ op_id(sent[0][k].op) \notin sent[1][j].seen
          /\ op_id(sent[1][j].op) \notin sent[0][k].seen
          /\ sent[0][k].op.lamport_timestamp.value # sent[1][j].op.lamport_timestamp.value
          /\ SortsBefore(buffers[0], IF LamportLess(sent[0][k].op.lamport_timestamp, sent[1][j].op.lamport_timestamp) THEN sent[1][j].op ELSE sent[0][k].op,
                         IF LamportLess(sent[0][k].op.lamport_timestamp, sent[1][j].op.lamport_timestamp) THEN sent[0][k].op ELSE sent[1][j].op)

----------------------------------------------------------------------------
(* Remote operations that name no place of the buffer *)

RECURSIVE SplitsExtent(_)
\* the length of the text of an insertion, as its splits tell it
SplitsExtent(split_tree) ==
    IF split_tree = <<>> THEN 0
    ELSE Head(split_tree).extent + SplitsExtent(Tail(split_tree))

\* the Edit operation op, made to start beyond the end of the insertion it names
OffsetOutside(buf, op) ==
    [op EXCEPT !.edit.start_offset = SplitsExtent(buf.insertion_splits[op.edit.start_id]) + 1,
               !.edit.end_offset = SplitsExtent(buf.insertion_splits[op.edit.end_id]) + 1]

\* the Edit operation op, made to name an insertion that no replica has produced
UnknownInsertion(op) ==
    [op EXCEPT !.edit.start_id = [op.edit.id EXCEPT !.value = @ + 1],
               !.edit.end_id = [op.edit.id EXCEPT !.value = @ + 1]]

\* apply_ops of the single operation m returns Ok, leaves the text as it is and
\* keeps m in the deferred queue
KeptDeferred(buf, m) ==
    LET kept(res) ==
            /\ res.err = "Ok"
            /\ text(res.buf) = text(buf)
            /\ \E d \in 1..Len(res.buf.deferred_ops) : res.buf.deferred_ops[d] = m
    IN  kept(apply_ops(buf, <<m>>))

\* from a common state, every operation replica 1 - r may send next, changed by
\* malformed(buffer, operation), is kept deferred by replica r
MalformedKept(malformed(_, _)) ==
    CommonState
    => \A r \in ReplicaIds :
          \A c \in EditChoices(1 - r, len(buffers[1 - r])) :
              KeptDeferred(buffers[r],
                           malformed(buffers[1 - r],
                                     edit(buffers[1 - r], c[1], c[2], now).ops[1]))

UnknownInsertionOf(buf, op) == UnknownInsertion(op)

\* an Edit that names an insertion no replica has produced is kept deferred
UnknownInsertionKept == MalformedKept(UnknownInsertionOf)

\* C35: a malformed remote operation (an Edit whose start or end offset lies outside
\* the insertion it names, or that names an insertion no replica produced) is never
\* applied and causes no error: it stays in the deferred queue and the text is
\* unchanged
C35_MalformedDeferred ==
    /\ MalformedKept(OffsetOutside)
    /\ MalformedKept(UnknownInsertionOf)

----------------------------------------------------------------------------
(* The fragments and the splits of the insertions *)

\* the fragments of the insertion `id`, in the order of the fragment tree
FragmentsOf(buf, id) == SelectSeq(buf.fragments, LAMBDA f : f.insertion.id = id)

\* the splits of an insertion and its fragments go together, one to one and in order
LockStep(buf) ==
    /\ \A k \in 1..Len(buf.fragments) : buf.fragments[k].insertion.id \in DOMAIN buf.insertion_splits
    /\ \A id \in DOMAIN buf.insertion_splits :
          LET splits == buf.insertion_splits[id]
              frags == FragmentsOf(buf, id)
          IN  /\ Len(splits) = Len(frags)
              /\ Len(frags) >= 1
              /\ SplitsExtent(splits) = Len(frags[1].insertion.text)
              /\ frags[1].start = 0
              /\ \A k \in 1..Len(frags) :
                    /\ splits[k].fragment_id = frags[k].id
                    /\ splits[k].extent = frags[k].end - frags[k].start
                    /\ k < Len(frags) => frags[k].end = frags[k + 1].start

\* every fragment of `old` is still there in `new`, whole or split into pieces that
\* lie within it and have kept its deletions
OnlySplit(old, new) ==
    /\ Len(new.fragments) >= Len(old.fragments)
    /\ \A k \in 1..Len(old.fragments) :
          LET f == old.fragments[k]
              pieces == {j \in 1..Len(new.fragments) :
                           /\ new.fragments[j].insertion.id = f.insertion.id
                           /\ f.start <= new.fragments[j].start
                           /\ new.fragments[j].end <= f.end
                           /\ (f.start < f.end => new.fragments[j].start < new.fragments[j].end)}
          IN  /\ pieces # {}
              /\ \A j \in pieces : f.deletions \subseteq new.fragments[j].deletions
              /\ \A o \in f.start..(f.end - 1) :
                    \E j \in pieces : new.fragments[j].start <= o /\ o < new.fragments[j].end

\* a step of the replicas only splits fragments
StepsOnlySplit ==
    \A r \in DOMAIN buffers :
        (apply_result[r] = "Ok" /\ apply_result'[r] = "Ok") => OnlySplit(buffers[r], buffers'[r])

\* every replica keeps the splits and the fragments of its insertions in lock step
SplitsInLockStep ==
    \A r \in DOMAIN buffers : apply_result[r] = "Ok" => LockStep(buffers[r])

\* C36: in every reachable state, for every insertion a replica knows, the extents of
\* its splits sum to the length of its text and the splits go one to one, in order,
\* with the fragments of the insertion; fragments are only split, never merged nor
\* removed, and the deletions of a fragment only grow
C36_LockStep == []SplitsInLockStep /\ [][StepsOnlySplit]_vars

\* a replica holds an insertion in three pieces, one of them deleted twice
C36_Witness ==
    \E r \in DOMAIN buffers :
        /\ apply_result[r] = "Ok"
        /\ \E id \in DOMAIN buffers[r].insertion_splits :
              /\ Len(buffers[r].insertion_splits[id]) >= 3
              /\ \E k \in 1..Len(buffers[r].fragments) :
                    /\ buffers[r].fragments[k].insertion.id = id
                    /\ Cardinality(buffers[r].fragments[k].deletions) >= 2

----------------------------------------------------------------------------
(* Operations handed over twice *)

\* apply_ops of the single operation op leaves the text, the version, the undo
\* counts and the selection sets of buf as they are
LeftAsIs(buf, op) ==
    LET same(res) ==
            /\ res.err = "Ok"
            /\ text(res.buf) = text(buf)
            /\ res.buf.version = buf.version
            /\ DOMAIN res.buf.undo_map = DOMAIN buf.undo_map
            /\ \A e \in DOMAIN buf.undo_map :
                  undo_count(res.buf.undo_map, e) = undo_count(buf.undo_map, e)
            /\ res.buf.selections = buf.selections
    IN  same(apply_ops(buf, <<op>>))

\* every operation of the given types that a replica has applied leaves it as it is
\* when it is handed over once more
DuplicatesHarmless(types) ==
    \A r \in ReplicaIds :
        apply_result[r] = "Ok"
        => \A q \in ReplicaIds \ {r} :
              \A k \in 1..Len(sent[q]) :
                  (/\ sent[q][k].op.type \in types
                   /\ op_id(sent[q][k].op) \in Applied(r))
                  => LeftAsIs(buffers[r], sent[q][k].op)

\* an Edit or an Undo handed over twice is skipped
DuplicateEditsHarmless == DuplicatesHarmless({"Edit", "Undo"})

\* C37: an Edit, an Undo or an UpdateSelections that a replica has applied and that
\* is handed over a second time, possibly after newer operations on the same
\* selection set, leaves the text, the version, the undo counts and all the
\* selection sets unchanged
C37_DuplicateHarmless == DuplicatesHarmless({"Edit", "Undo", "UpdateSelections"})

----------------------------------------------------------------------------
(* The edits the version of a replica covers *)

\* C38: no Edit is discarded: the version of a replica has observed the id of an
\* Edit of another replica only if that Edit has been applied there, also when the
\* operations arrive out of order, and an Edit handed over is applied or deferred
C38_NoEditDiscarded ==
    \A r \in ReplicaIds :
        apply_result[r] = "Ok"
        => \A q \in ReplicaIds \ {r} :
              \A k \in 1..Len(sent[q]) :
                  sent[q][k].op.type = "Edit"
                  => /\ GlobalObserved(buffers[r].version, sent[q][k].op.edit.id)
                        => op_id(sent[q][k].op) \in Applied(r)
                     /\ <<q, k>> \in Received(r)
                        => \/ op_id(sent[q][k].op) \in Applied(r)
                           \/ \E d \in 1..Len(buffers[r].deferred_ops) :
                                 buffers[r].deferred_ops[d] = sent[q][k].op

----------------------------------------------------------------------------
(* The undo stack, the redo stack and the undo counts *)

\* the stacks of the history agree with the undo counts and list an edit once
StackConsistent(buf) ==
    LET undo_stack == buf.history.undo_stack
        redo_stack == buf.history.redo_stack
        all == [k \in 1..Len(undo_stack) |-> undo_stack[k].edits]
               \o [k \in 1..Len(redo_stack) |-> redo_stack[k].edits]
    IN  /\ \A t \in 1..Len(undo_stack) : \A k \in 1..Len(undo_stack[t].edits) :
              undo_count(buf.undo_map, undo_stack[t].edits[k]) % 2 = 0
        /\ \A t \in 1..Len(redo_stack) : \A k \in 1..Len(redo_stack[t].edits) :
              undo_count(buf.undo_map, redo_stack[t].edits[k]) % 2 = 1
        /\ \A t1, t2 \in 1..Len(all) : \A k1 \in 1..Len(all[t1]), k2 \in 1..Len(all[t2]) :
              all[t1][k1] = all[t2][k2] => (t1 = t2 /\ k1 = k2)

----------------------------------------------------------------------------
(* The order of the fragment ids *)

\* the fragments start with the sentinel, their ids grow strictly and stay below the
\* largest id; the sequence being the pushes of the call that built it, in order,
\* add_summary never met a max_fragment_id larger than the one it was given
SortedFragments(buf) ==
    /\ Len(buf.fragments) >= 1
    /\ buf.fragments[1].id = FRAGMENT_ID_MIN_VALUE
    /\ \A k \in 1..Len(buf.fragments) :
          FragmentIdLess(buf.fragments[k].id, FRAGMENT_ID_MAX_VALUE)
    /\ \A i, j \in 1..Len(buf.fragments) :
          i < j => FragmentIdLess(buf.fragments[i].id, buf.fragments[j].id)

\* C40: in every reachable state, after any local splice, remote apply_edit or
\* apply_undo, the fragment ids are pairwise distinct and strictly increasing in the
\* order of the document, the first fragment is the MIN sentinel, every id is below
\* MAX, and the assertion of add_summary on max_fragment_id does not fail
C40_SortedFragmentIds ==
    \A r \in DOMAIN buffers : apply_result[r] = "Ok" => SortedFragments(buffers[r])

\* a replica holds five fragments or more, made by its own edits and by the edits of
\* another replica, and has applied an undo
C40_Witness ==
    \E r \in DOMAIN buffers :
        /\ apply_result[r] = "Ok"
        /\ Len(buffers[r].fragments) >= 5
        /\ \E k \in 1..Len(buffers[r].fragments) :
              buffers[r].fragments[k].insertion.id.replica_id # r
        /\ \E k \in 1..Len(buffers[r].fragments) :
              /\ buffers[r].fragments[k].insertion.id.replica_id = r
              /\ buffers[r].fragments[k].insertion.id.value > 0
        /\ DOMAIN buffers[r].undo_map # {}

====
